---- MODULE Spec2Model ----
(***************************************************************************)
(* CMLink tournament monitor (src/CMLink/TournamentMonitor.py): the poll   *)
(* loop, the state cache and the match voice-channel orchestrator, as a    *)
(* state machine.  One action per step of the sweep: starting a sweep, one *)
(* tournament's fetch and tournament-level diff, one match's diff and      *)
(* transition handler.  The remote service, the chat platform's failures   *)
(* and the link store's content are the environment.                       *)
(***************************************************************************)
EXTENDS Integers, Sequences, FiniteSets, TLC

\* ------------------------------------------------------------------ bounds
\* changes of the remote service's state in one behaviour
MaxRemoteChanges == 2
\* environment faults (a failed fetch/create/delete/move/persist, a raising lookup) in one behaviour
MaxFaults == 2
\* voice channels created in one behaviour
MaxChannels == 5

\* ------------------------------------------------------------- the universe
None == "None"
Absent == "absent"

GuildList == <<"g1", "g2">>
Guilds == {GuildList[i] : i \in 1..Len(GuildList)}

\* cfg.tournaments() of each guild: list(tournaments.keys())
TournamentsOf(g) == IF g = "g1" THEN <<"t1", "t2">> ELSE <<"t2">>
TournamentIds == {"t1", "t2"}

\* the match series of each tournament, in the order the service lists them
MatchesOf(t) == IF t = "t1" THEN <<"m1", "m2">> ELSE <<"m3">>
MatchIds == {"m1", "m2", "m3"}

RemoteUsers == {"u1", "u2", "u3"}
\* the chat-platform account of each remote user
Owner(u) == CASE u = "u1" -> "d1" [] u = "u2" -> "d2" [] OTHER -> "d3"
DiscordIds == {Owner(u) : u \in RemoteUsers}

\* lineups of the first match of each match series (number, members' userIds);
\* m2 is a series without matches yet: no lineup data
LineupsOf(m) ==
    CASE m = "m1" -> << [number |-> 0, members |-> <<"u1", "u2">>],
                        [number |-> 1, members |-> <<"u3">>] >>
      [] m = "m2" -> << >>
      [] OTHER    -> << [number |-> 0, members |-> <<"u1">>],
                        [number |-> 1, members |-> <<"u3">>] >>

TournamentStates == {"WAITING", "RUNNING", "COMPLETED"}
MatchStates == {"WAITING", "RUNNING", "COMPLETED", "CANCELLED", "NULLIFIED", "PENDING"}
TerminalStates == {"COMPLETED", "CANCELLED", "NULLIFIED"}

\* voice locations are platform ids: channel ids are positive, each guild's lobby
\* voice channel has a non-positive id of its own, NoVoice is "not in voice"
GuildIndex(g) == CHOOSE i \in 1..Len(GuildList) : GuildList[i] = g
Lobby(g) == 0 - GuildIndex(g)
NoVoice == 0

\* a missing value where the present one is a record
NoData == [none |-> TRUE]
IsNone(d) == "none" \in DOMAIN d
\* no entry of the active-channel maps
NoEntry == [present |-> FALSE, channels |-> << >>]
Entry(ids) == [present |-> TRUE, channels |-> ids]

VARIABLES
    remote_t,        \* remote service: tournament id -> state
    remote_m,        \* remote service: match series id -> state, or Absent
    budget,          \* remote changes left
    faults,          \* environment faults left
    links,           \* Link Store: remote user id -> local id, or None
    guild_members,   \* guild -> set of local ids that are members
    voice,           \* local id -> NoVoice, Lobby(g) or a channel id
    update_channel,  \* guild -> update channel configured and found
    lobby_vc,        \* guild -> lobby voice channel configured and found
    state_cache,     \* _state_cache[g][t]: match id -> state, or Absent
    t_state_cache,   \* _state_cache[g][t + "_state"], or None
    active_voice,    \* _active_voice[(g, m)]: Entry(channel ids), or NoEntry
    active_matches,  \* persisted active_matches of guild g: m -> Entry(ids), or NoEntry
    channels,        \* existing voice channels: id -> record
    nextChannelId,   \* the platform's next fresh channel id
    pc, gi, ti, mi,  \* position of the poll loop in its sweep
    tdata,           \* the normalised snapshot being processed, or NoData
    live,            \* per (g, m): channels were created successfully and not torn down since (history)
    observed_t,      \* per (g, t): tournament state the service reported at the last fetch (history)
    report,          \* what the last step did (history)
    events,          \* notifications sent, in order, when logging
    logging,
    failed_creation, \* per (g, m): the last handler call for the match was a creation that failed (history)
    config,          \* global settings: API_Access_Token, API_Access_Expires_At, API_Refresh_Token, API_Token_URL
    clock,           \* int(time.time())
    issued,          \* access tokens the exchange endpoint has issued so far
    api,             \* what the last token or request call did (history)
    running,         \* the _running event is set
    task,            \* _task: "none", "alive", "ended" or "cancelled"
    job,             \* where the poll task stands: at its sleep, in a sweep, inside a handler
    stopper,         \* where a stop() call stands, and the matches its cleanup has read
    hist,            \* what happened to the process so far (history)
    disk,            \* the file system under the Link Store: names, inodes
    savers,          \* each caller of the Link Store: its position and locals
    locks,           \* the threading.Lock of each Storage object: its holder
    sop,             \* the last Link Store operation and its outcome (history)
    poll_interval,   \* the Poll_Interval setting
    interval,        \* _loop's local `interval`
    delay,           \* what _loop last slept, in seconds (history)
    last_js,         \* _last_js_by_op: the last payload logged for the operation
    debug_log,       \* the Debug_API_Logging setting
    handled,         \* per guild and match: the terminal state handled (history)
    mon              \* the monitor's _task, session and _running, with the poll
                     \* tasks and HTTP sessions that exist, by identity

vars == << remote_t, remote_m, budget, faults, links, guild_members, voice,
           update_channel, lobby_vc, state_cache, t_state_cache, active_voice,
           active_matches, channels, nextChannelId, pc, gi, ti, mi, tdata,
           live, observed_t, report, events, logging, failed_creation,
           config, clock, issued, api, running, task, job, stopper, hist,
           disk, savers, locks, sop, poll_interval, interval, delay, last_js,
           debug_log, handled, mon >>

envVars == << links, guild_members, update_channel, lobby_vc, logging >>

\* the token manager's state, and the process's life cycle
authVars == << config, clock, issued, api >>
lifeVars == << running, task, job, stopper, hist >>

\* the Link Store's files and callers, the sweep cadence, the request log
storeVars == << disk, savers, locks, sop >>
cadenceVars == << poll_interval, interval, delay >>
logVars == << last_js, debug_log >>
seenVars == << handled >>
startVars == << mon >>
sideVars == << storeVars, cadenceVars, logVars, seenVars, startVars >>

\* ------------------------------------------------------------------ helpers
\* dict.get(k): None for a missing key
DictGet(d, k) == IF k \in DOMAIN d THEN d[k] ELSE None

Range(s) == {s[i] : i \in 1..Len(s)}

RECURSIVE SeqFilter(_, _)
SeqFilter(s, keep) ==
    IF s = << >> THEN << >>
    ELSE IF Head(s) \in keep THEN <<Head(s)>> \o SeqFilter(Tail(s), keep)
         ELSE SeqFilter(Tail(s), keep)

RECURSIVE SeqMax(_)
SeqMax(s) ==
    IF s = << >> THEN 0
    ELSE LET r == SeqMax(Tail(s)) IN IF Head(s) > r THEN Head(s) ELSE r

NoReport ==
    [ action |-> "none", g |-> None, t |-> None, m |-> None,
      prev_observed |-> None, observed |-> None,
      old |-> None, new |-> None, handler |-> FALSE,
      op |-> "none", outcome |-> "none",
      created |-> {}, delete_attempts |-> << >>, delete_failed |-> {},
      moved |-> {}, move_failed |-> {}, reminded |-> {}, remind_failed |-> {},
      events |-> << >>,
      \* the results announcement: "none" (not tried), "sent" or "failed"
      announced |-> "none",
      \* the terminal state was handled before, for the same entry into it
      repeated |-> FALSE,
      \* set by the step that ends the processing of a tournament's snapshot:
      \* the snapshot, the matches whose state differed from the cache, and
      \* the matches the transition handler was invoked for
      finished |-> FALSE, aborted |-> FALSE,
      snapshot |-> [m \in MatchIds |-> Absent], changed |-> {}, invoked |-> {} ]

\* an access token is a positive number; NoToken stands for "" and None
NoToken == 0

\* nothing reported yet by the token manager and the requester
NoApi ==
    [ op |-> "none",
      \* the settings and the time the call started from
      before |-> [ API_Access_Token |-> NoToken, API_Access_Expires_At |-> 0,
                   API_Refresh_Token |-> FALSE, API_Token_URL |-> FALSE ],
      at |-> 0,
      \* the token returned (by the last token call of a request), NoToken for none
      returned |-> NoToken,
      \* token exchanges and API calls sent, the exchanges of the forced renewal
      exchanges |-> 0, calls |-> 0, reexchanges |-> 0,
      \* what the token endpoint answered to a token call's exchange
      answer |-> "unasked",
      \* the settings once a request's first token call has returned
      ensured |-> [ API_Access_Token |-> NoToken, API_Access_Expires_At |-> 0,
                    API_Refresh_Token |-> FALSE, API_Token_URL |-> FALSE ],
      \* the responses the server gave to the first call and to the retry
      first |-> [status |-> None, body |-> [kind |-> "none", errors |-> << >>]],
      second |-> [status |-> None, body |-> [kind |-> "none", errors |-> << >>]],
      \* the cached token was empty when the renewal started
      cleared |-> FALSE,
      \* the (payload, status) returned
      payload |-> [kind |-> "none", errors |-> << >>], status |-> None,
      \* the diagnostic pushed for the response, and what the same call returns
      \* and sends when nothing was logged before
      pushed |-> "none",
      fresh |-> [ payload |-> [kind |-> "none", errors |-> << >>], status |-> None,
                  calls |-> 0, exchanges |-> 0 ] ]

\* the poll task is not suspended inside a transition handler
NoJob == [at |-> "run", g |-> None, m |-> None]

\* no stop() call is under way; gi is the guild _cleanup_all has reached
NoStop == [at |-> "idle", gi |-> 1]

\* a process that has never been restarted, cancelled or cleaned up
NoHist ==
    [ restarts |-> 0,          \* times the process was started again
      recovered |-> FALSE,     \* a _cleanup_all pass has completed since the last start
      delete_failed |-> FALSE, \* some channel deletion has failed
      cancelled |-> FALSE,     \* stop() cancelled the poll task inside a sweep
      made |-> {},             \* every channel id the monitor has created
      torn |-> {},             \* (g, m, n): the last handling of (g, m) was a teardown that
                               \* returned after attempting n deletions
      again |-> -1,            \* the last step was a teardown of a pair in torn: its n
      listed |-> {},           \* _cleanup_all's last step: the ids the record listed for the match
      held |-> {},             \* _cleanup_all's last step: the ids the in-memory set held for it
      before |-> {} ]          \* _cleanup_all's last step: the channels that existed before it

\* ------------------------------------------------------- the remote service
\* the service's answer for one match series: the first match carries the lineups
RawSeries(m, ordinal) ==
    [ id |-> m, state |-> remote_m[m], ordinal |-> ordinal,
      matches |-> IF LineupsOf(m) = << >> THEN << >>
                  ELSE << [ lineups |->
                            [ i \in 1..Len(LineupsOf(m)) |->
                              [ number |-> LineupsOf(m)[i].number,
                                members |-> [ j \in 1..Len(LineupsOf(m)[i].members) |->
                                              [ user |-> [ userId |-> LineupsOf(m)[i].members[j],
                                                           username |-> LineupsOf(m)[i].members[j] ] ] ] ] ] ] >> ]

RECURSIVE RawSeriesList(_, _)
RawSeriesList(ms, ordinal) ==
    IF ms = << >> THEN << >>
    ELSE IF remote_m[Head(ms)] = Absent THEN RawSeriesList(Tail(ms), ordinal + 1)
         ELSE <<RawSeries(Head(ms), ordinal)>> \o RawSeriesList(Tail(ms), ordinal + 1)

\* data.tournament of the TournamentMatches query
RemotePayload(t) ==
    [ id |-> t, name |-> t, state |-> remote_t[t],
      matchSeries |-> RawSeriesList(MatchesOf(t), 1) ]

\* self._graphql(api_url, None, query, vars): the response's data, None on failure
Graphql(ok, t) == IF ok THEN [tournament |-> RemotePayload(t)] ELSE NoData

NormalizeSeries(ms) ==
    [ id |-> ms.id,
      shortId |-> ms.ordinal,
      state |-> ms.state,
      lineups |-> IF ms.matches = << >> THEN << >>
                  ELSE [ i \in 1..Len(ms.matches[1].lineups) |->
                         [ number |-> ms.matches[1].lineups[i].number,
                           members |-> [ j \in 1..Len(ms.matches[1].lineups[i].members) |->
                                         [ userId |-> ms.matches[1].lineups[i].members[j].user.userId,
                                           username |-> ms.matches[1].lineups[i].members[j].user.username ] ] ] ] ]

\* _fetch_tournament_matches: the normalised snapshot {id, name, matches}, or NoData
FetchTournamentMatches(data) ==
    IF IsNone(data) THEN NoData
    ELSE LET t == data.tournament IN
         [ id |-> t.id, name |-> t.name,
           matches |-> [ i \in 1..Len(t.matchSeries) |-> NormalizeSeries(t.matchSeries[i]) ] ]

\* current = {m["id"]: m["state"] for m in tdata["matches"]}
CurrentOf(td) ==
    [ m \in MatchIds |->
        IF \E i \in 1..Len(td.matches) : td.matches[i].id = m
        THEN LET i == CHOOSE i \in 1..Len(td.matches) : td.matches[i].id = m
             IN td.matches[i].state
        ELSE Absent ]

\* ------------------------------------------------------------ the Link Store

\* the remote user ids and the Discord ids the store maps them to; a value
\* that int() rejects; no entry
LinkKeys == {"a", "b", "c"}
NumericIds == {"x", "y", "z"}
NoLink == "-"
EmptyLinks == [k \in LinkKeys |-> NoLink]

\* what the backing file can hold: nothing (no such file), bytes that cannot
\* be opened, bytes that are no JSON (a cut or interleaved write), a file just
\* truncated, JSON whose root is a list, {"links": []}, {"links": null}, and
\* the root object {"links": {...}}
Content(kind) == [kind |-> kind, links |-> EmptyLinks]
Missing == Content("missing")
Unreadable == Content("unreadable")
Corrupt == Content("corrupt")
Truncated == Content("empty")
RootList == Content("root_list")
LinksList == Content("links_list")
LinksNull == Content("links_null")
Object(m) == [kind |-> "object", links |-> m]

\* a file's bytes and whether they have reached the device
Inode(c, s) == [content |-> c, synced |-> s]

\* the directory: the inode each of the two names refers to (0: no such name)
DiskWith(c) ==
    IF c = Missing
    THEN [file |-> 0, tmp |-> 0, inodes |-> << >>]
    ELSE [file |-> 1, tmp |-> 0, inodes |-> << Inode(c, TRUE) >>]

ContentOf(d, name) == IF name = 0 THEN Missing ELSE d.inodes[name].content

\* Storage._read: the parsed file, {"links": {}} when open() or json.load()
\* raises
Unloadable == {"missing", "unreadable", "corrupt", "empty"}
Load(c) == IF c.kind \in Unloadable THEN Object(EmptyLinks) ELSE c
StorageRead(d) == Load(ContentOf(d, d.file))

\* Storage.get_discord_id: data.get("links", {}).get(key) runs outside any
\* try, so a root or a "links" value that has no .get() raises; a value that
\* int() rejects is reported as absent
GetDiscordId(d, u) ==
    LET data == StorageRead(d)
    IN  IF data.kind # "object"
        THEN [raised |-> TRUE, value |-> NoLink]
        ELSE [raised |-> FALSE,
              value |-> IF data.links[u] \in NumericIds THEN data.links[u] ELSE NoLink]

\* Storage.all_links: data.get("links", {}) as it is, whatever its type
AllLinks(d) ==
    LET data == StorageRead(d)
    IN  CASE data.kind = "root_list" ->
                 [raised |-> TRUE, shape |-> "none", mapping |-> EmptyLinks]
          [] data.kind = "links_list" ->
                 [raised |-> FALSE, shape |-> "list", mapping |-> EmptyLinks]
          [] data.kind = "links_null" ->
                 [raised |-> FALSE, shape |-> "null", mapping |-> EmptyLinks]
          [] OTHER ->
                 [raised |-> FALSE, shape |-> "mapping", mapping |-> data.links]

\* Storage.save_link, lines 86-89: setdefault and the item assignment, which
\* raise (and are caught) when the root or "links" is not a mapping
SetLink(data, u, v) ==
    IF data.kind = "object"
    THEN [ok |-> TRUE, data |-> Object([data.links EXCEPT ![u] = v])]
    ELSE [ok |-> FALSE, data |-> data]

\* the callers of save_link, what each saves, and the Storage objects
Savers == {"s1", "s2"}
SaveKey(s) == IF s = "s1" THEN "a" ELSE "b"
SaveValue(s) == IF s = "s1" THEN "x" ELSE "y"
StorageObjects == {"o1", "o2"}
NoSaver == [pc |-> "new", obj |-> "o1", data |-> Object(EmptyLinks), fd |-> 0,
            saved |-> FALSE]
InsideSave == {"write", "dump", "sync", "replace", "unlock"}

\* no Link Store operation yet
NoSop ==
    [ op |-> "none", who |-> None, key |-> None, seen |-> "none",
      raised |-> FALSE, shape |-> "none", value |-> NoLink, mapping |-> EmptyLinks,
      first |-> Missing, intended |-> {}, overlap |-> FALSE,
      sync_failed |-> FALSE, power |-> FALSE ]

\* the Link Store with one caller's object, an empty store on disk
InitStore ==
    /\ disk = DiskWith(Object(EmptyLinks))
    /\ savers = [s \in Savers |-> NoSaver]
    /\ locks = [o \in StorageObjects |-> None]
    /\ sop = [NoSop EXCEPT !.first = Object(EmptyLinks)]

\* CMLink.default_global: Poll_Interval 5, Debug_API_Logging False; the loop
\* has not read the interval yet; nothing logged
IntValue(v) == [kind |-> "int", v |-> v]
DefaultPollInterval == IntValue(5)
Unbound == [kind |-> "unbound", v |-> 0]
\* no iteration of _loop has slept yet
NoDelay == [state |-> "none", secs |-> 0, configured |-> DefaultPollInterval,
            read_ok |-> TRUE]

\* no terminal state of any match was handled yet
NoneHandled == [g \in Guilds |-> [m \in MatchIds |-> None]]

\* what stays handled once the service reports the states rm: a match that is
\* missing from the snapshot or back in the state handled keeps its mark, a
\* match in another state has entered a new state
Seen(rm) ==
    [g \in Guilds |-> [m \in MatchIds |->
        IF rm[m] \in {Absent, handled[g][m]} THEN handled[g][m] ELSE None]]

\* who calls start(): the task CMLink.__init__ schedules (line 45), and the
\* command handlers api_test (lines 116-118) and the link command (lines 163-165)
StartCallers == {"init", "apitest", "link"}

\* the monitor as __init__ leaves it (lines 110-112): no task, no session,
\* _running clear; 0 stands for None, tasks and sessions are numbered
NoMon ==
    [ task |-> 0, session |-> 0, running |-> FALSE,
      loops |-> {},          \* the _loop tasks that have not ended
      open |-> {},           \* the HTTP sessions that are not closed
      tasks_made |-> 0, sessions_made |-> 0,
      calls |-> [c \in StartCallers |-> 0],
      \* stop(): where it is, the task it waits for, the session it closes
      stop |-> "idle", awaited |-> 0, closing |-> 0,
      \* the last start() call: whether _task was set, what it created
      last |-> [called |-> FALSE, had_task |-> FALSE, new_task |-> 0, new_session |-> 0] ]

InitSide ==
    /\ handled = NoneHandled
    /\ mon = NoMon
    /\ InitStore
    /\ poll_interval = DefaultPollInterval
    /\ interval = Unbound
    /\ delay = NoDelay
    /\ last_js = [kind |-> "none", errors |-> << >>]
    /\ debug_log = FALSE

\* ---------------------------------------------------------- initial states
\* what the link store, the guild and the lobby hold for one remote user
UserStatuses == {"unlinked", "nonmember", "member", "lobby"}

InitEnv(status, upd, lob) ==
    /\ links = [u \in RemoteUsers |-> IF status[u] = "unlinked" THEN None ELSE Owner(u)]
    /\ guild_members = [g \in Guilds |-> {Owner(u) : u \in {x \in RemoteUsers : status[x] # "nonmember"}}]
    /\ voice = [d \in DiscordIds |->
                  IF \E u \in RemoteUsers : Owner(u) = d /\ status[u] \in {"unlinked", "lobby"}
                  THEN Lobby("g1") ELSE NoVoice]
    /\ update_channel = [g \in Guilds |-> upd]
    /\ lobby_vc = [g \in Guilds |-> lob]

InitMonitor ==
    /\ state_cache = [g \in Guilds |-> [t \in TournamentIds |-> [m \in MatchIds |-> Absent]]]
    /\ t_state_cache = [g \in Guilds |-> [t \in TournamentIds |-> None]]
    /\ active_voice = [g \in Guilds |-> [m \in MatchIds |-> NoEntry]]
    /\ active_matches = [g \in Guilds |-> [m \in MatchIds |-> NoEntry]]
    /\ channels = << >>
    /\ nextChannelId = 1
    /\ pc = "sleep" /\ gi = 1 /\ ti = 1 /\ mi = 1
    /\ tdata = NoData
    /\ observed_t = [g \in Guilds |-> [t \in TournamentIds |-> None]]
    /\ live = [g \in Guilds |-> [m \in MatchIds |-> FALSE]]
    /\ failed_creation = [g \in Guilds |-> [m \in MatchIds |-> FALSE]]
    /\ report = NoReport
    /\ events = << >>

\* CMLink.__init__, default_global: no token cached; whether the refresh key
\* and the token endpoint are set is up to the owner
DefaultConfig(refresh, url) ==
    [ API_Access_Token |-> NoToken, API_Access_Expires_At |-> 0,
      API_Refresh_Token |-> refresh, API_Token_URL |-> url ]

\* the token manager before its first call
InitAuth(refresh, url) ==
    /\ config = DefaultConfig(refresh, url)
    /\ clock = 0
    /\ issued = 0
    /\ api = NoApi

\* the process once start() has run: the poll task exists, nobody stops it
InitStarted ==
    /\ running = TRUE
    /\ task = "alive"
    /\ job = NoJob
    /\ stopper = NoStop
    /\ hist = NoHist

\* everything but the token manager and the life cycle, at rest: the users
\* linked and in the lobby, nothing created, the service silent
InitQuiet ==
    /\ remote_t = [t \in TournamentIds |-> "WAITING"]
    /\ remote_m = [m \in MatchIds |-> Absent]
    /\ budget = 0
    /\ InitEnv([u \in RemoteUsers |-> "lobby"], FALSE, TRUE)
    /\ logging = FALSE
    /\ InitMonitor

\* the configurations of linked users the poll-loop specification starts from
MainStatuses ==
    { [u \in RemoteUsers |-> "lobby"],
      [u \in RemoteUsers |-> IF u = "u2" THEN "unlinked" ELSE IF u = "u3" THEN "member" ELSE "lobby"],
      [u \in RemoteUsers |-> IF u = "u3" THEN "nonmember" ELSE "lobby"] }

Init ==
    /\ remote_t = [t \in TournamentIds |-> "WAITING"]
    /\ remote_m = [m \in MatchIds |-> Absent]
    /\ budget = MaxRemoteChanges
    /\ faults = MaxFaults
    /\ \E status \in MainStatuses, b \in BOOLEAN : InitEnv(status, b, b)
    /\ logging = FALSE
    /\ InitMonitor
    /\ InitAuth(TRUE, TRUE)
    /\ InitStarted
    /\ InitSide

\* --------------------------------------------------------------- poll loop
\* the remote service changes the state of one tournament or one match series
RemoteAdvance ==
    /\ pc = "sleep"
    /\ budget > 0
    /\ budget' = budget - 1
    /\ \/ \E t \in TournamentIds, s \in TournamentStates :
            /\ s # remote_t[t]
            /\ remote_t' = [remote_t EXCEPT ![t] = s]
            /\ UNCHANGED remote_m
       \/ \E m \in MatchIds, s \in MatchStates \cup {Absent} :
            /\ s # remote_m[m]
            /\ remote_m' = [remote_m EXCEPT ![m] = s]
            /\ UNCHANGED remote_t
    /\ report' = NoReport
    /\ UNCHANGED << faults, voice, state_cache, t_state_cache, active_voice,
                    active_matches, channels, nextChannelId, pc, gi, ti, mi, tdata,
                    live, observed_t, events >>
    /\ UNCHANGED << envVars, storeVars, cadenceVars, logVars, startVars >>
    /\ UNCHANGED << failed_creation, authVars, lifeVars >>
    /\ handled' = Seen(remote_m')

\* _loop / _tick_all_guilds: a sweep starts with the first guild
TickAllGuilds ==
    /\ pc = "sleep"
    /\ pc' = "fetch" /\ gi' = 1 /\ ti' = 1 /\ mi' = 1
    /\ report' = [NoReport EXCEPT !.action = "tick"]
    /\ UNCHANGED << remote_t, remote_m, budget, faults, voice, state_cache,
                    t_state_cache, active_voice, active_matches, channels,
                    nextChannelId, tdata, live, observed_t, events >>
    /\ UNCHANGED << envVars, sideVars >>
    /\ UNCHANGED << failed_creation, authVars, lifeVars >>

\* where the sweep goes after tournament ti of guild gi, and after guild gi
NextGuild(g_i) ==
    IF g_i < Len(GuildList) THEN [pc |-> "fetch", gi |-> g_i + 1, ti |-> 1]
    ELSE [pc |-> "sleep", gi |-> 1, ti |-> 1]

NextTournament(g_i, t_i) ==
    IF t_i < Len(TournamentsOf(GuildList[g_i])) THEN [pc |-> "fetch", gi |-> g_i, ti |-> t_i + 1]
    ELSE NextGuild(g_i)

\* _on_tournament_state_change: the announcements sent for old -> new
OnTournamentStateChange(g, t, old, new) ==
    IF ~update_channel[g] THEN << >>
    ELSE (IF new = "RUNNING" /\ old # "RUNNING" THEN << <<"tournament_started", g, t>> >> ELSE << >>)
         \o (IF new = "COMPLETED" /\ old # "COMPLETED" THEN << <<"tournament_concluded", g, t>> >> ELSE << >>)

Log(evs) == IF logging THEN events \o evs ELSE events

\* ------------------------------------------------------- match orchestrator
\* a lookup that takes every linked user for a guild member
Resolved_LinkOnly(g, u) == links[u] # None

\* lines 223-229: the guild members a lineup's remote users resolve to
Resolved(g, u) == links[u] # None /\ links[u] \in guild_members[g]

RECURSIVE ResolveMembers(_, _)
ResolveMembers(g, members) ==
    IF members = << >> THEN << >>
    ELSE (IF Resolved(g, Head(members).userId) THEN <<links[Head(members).userId]>> ELSE << >>)
         \o ResolveMembers(g, Tail(members))

\* teams: per lineup (dict order = lineup order), its number and resolved members
ResolveTeams(g, match) ==
    [ i \in 1..Len(match.lineups) |->
        [ number |-> match.lineups[i].number,
          members |-> ResolveMembers(g, match.lineups[i].members) ] ]

RECURSIVE AllMembers(_)
AllMembers(teams) ==
    IF teams = << >> THEN {} ELSE Range(Head(teams).members) \cup AllMembers(Tail(teams))

\* max_size = max(len(v) for v in teams.values() if v), 0 when there is none
MaxTeamSize(teams) == SeqMax([i \in 1..Len(teams) |-> Len(teams[i].members)])

DenyAll == {"connect", "view_channel", "speak"}

RECURSIVE PerTeamChannels(_, _)
PerTeamChannels(match, teams) ==
    IF teams = << >> THEN << >>
    ELSE (IF Head(teams).members = << >> THEN << >>
          ELSE << [ name |-> <<match.shortId, Head(teams).number + 1>>,
                    default_deny |-> DenyAll,
                    allow |-> Range(Head(teams).members) ] >>)
         \o PerTeamChannels(match, Tail(teams))

\* the shared channel only when no lineup has a resolved member
PlanChannels_SharedOnlyWhenEmpty(match, teams) ==
    IF MaxTeamSize(teams) < 1
    THEN << [ name |-> <<match.shortId, 0>>,
              default_deny |-> DenyAll,
              allow |-> AllMembers(teams) ] >>
    ELSE PerTeamChannels(match, teams)

\* the channels _create_and_move sets out to create, in order (lines 437-459);
\* a name is <<shortId, 0>> for "match-<shortId>", <<shortId, n>> for "...-team<n>"
PlanChannels(match, teams) ==
    IF MaxTeamSize(teams) <= 1
    THEN << [ name |-> <<match.shortId, 0>>,
              default_deny |-> DenyAll,
              allow |-> AllMembers(teams) ] >>
    ELSE PerTeamChannels(match, teams)

\* what a handler call leaves behind and reports; the defaults are "nothing done"
HandlerBase ==
    [ raised |-> FALSE, av |-> active_voice, am |-> active_matches,
      ch |-> channels, vo |-> voice, next |-> nextChannelId, used |-> 0,
      op |-> "none", outcome |-> "none", created |-> {},
      delete_attempts |-> << >>, delete_failed |-> {}, moved |-> {},
      move_failed |-> {}, reminded |-> {}, remind_failed |-> {}, events |-> << >>,
      announced |-> "none" ]

B2N(b) == IF b THEN 1 ELSE 0

\* every team is moved to the channel created first
MoveTarget_FirstChannel(ids, planned, number) == ids[1]

\* line 464: the channel a team's members are moved to, 0 when there is none
MoveTarget(ids, planned, number) ==
    IF Len(ids) = 1 THEN ids[1]
    ELSE IF \E i \in 1..Len(ids) : planned[i].name[2] = number + 1
         THEN ids[CHOOSE i \in 1..Len(ids) : planned[i].name[2] = number + 1]
         ELSE 0

\* a rollback that deletes only the channel created last
RollbackAttempts_LastOnly(exc, channel_map) ==
    IF exc /\ channel_map # << >> THEN <<channel_map[Len(channel_map)]>> ELSE << >>

\* lines 483-490: the channels the except branch tries to delete
RollbackAttempts(exc, channel_map) == IF exc THEN channel_map ELSE << >>

\* a creation that never looks at the in-memory active set
AlreadyCreated_Never(g, mid) == FALSE

\* lines 423-425: the match has a key in _active_voice
AlreadyCreated(g, mid) == active_voice[g][mid].present

\* _create_and_move; e names the calls that fail in this invocation
CreateAndMove(g, match, teams, e) ==
    LET mid == match.id IN
    IF AlreadyCreated(g, mid)
    THEN [HandlerBase EXCEPT !.op = "create", !.outcome = "skipped"]
    ELSE
    LET planned == PlanChannels(match, teams)
        n == Len(planned)
        create_failed == e.createFailAt \in 1..n
        k == IF create_failed THEN e.createFailAt - 1 ELSE n
        ids == [i \in 1..k |-> nextChannelId + i - 1]
        ch1 == [c \in DOMAIN channels \cup Range(ids) |->
                  IF c \in DOMAIN channels THEN channels[c]
                  ELSE LET i == CHOOSE i \in 1..k : ids[i] = c
                       IN [ guild |-> g, match |-> mid, name |-> planned[i].name,
                            default_deny |-> planned[i].default_deny,
                            allow |-> planned[i].allow ] ]
        TeamTarget(d) ==
            LET i == CHOOSE i \in 1..Len(teams) : d \in Range(teams[i].members)
            IN MoveTarget(ids, planned, teams[i].number)
        movers == IF create_failed \/ ~lobby_vc[g] THEN {}
                  ELSE {d \in AllMembers(teams) : voice[d] = Lobby(g) /\ TeamTarget(d) # 0}
        moved == movers \ {e.moveFail}
        vo1 == [d \in DiscordIds |-> IF d \in moved THEN TeamTarget(d) ELSE voice[d]]
        persist_failed == ~create_failed /\ e.persistFail
        exc == create_failed \/ persist_failed
        av1 == IF create_failed THEN active_voice
               ELSE [active_voice EXCEPT ![g][mid] = Entry(ids)]
        am1 == IF exc THEN active_matches
               ELSE [active_matches EXCEPT ![g][mid] = Entry(ids)]
        attempts == RollbackAttempts(exc, ids)
        del_failed == IF e.delFailAt \in 1..Len(attempts) THEN {attempts[e.delFailAt]} ELSE {}
        deleted == Range(attempts) \ del_failed
        ch2 == [c \in DOMAIN ch1 \ deleted |-> ch1[c]]
        vo2 == [d \in DiscordIds |-> IF vo1[d] \in deleted THEN NoVoice ELSE vo1[d]]
    IN [HandlerBase EXCEPT
          !.av = av1, !.am = am1, !.ch = ch2, !.vo = vo2,
          !.next = nextChannelId + k,
          !.used = B2N(create_failed) + B2N(persist_failed) + B2N(del_failed # {})
                   + B2N(e.moveFail \in movers),
          !.op = "create",
          !.outcome = IF exc THEN "failed" ELSE "ok",
          !.created = Range(ids),
          !.delete_attempts = attempts,
          !.delete_failed = del_failed,
          !.moved = moved,
          !.move_failed = movers \ moved,
          !.events = IF exc THEN << >> ELSE << <<"channels_created", g, mid>> >> ]

\* a teardown that uses the in-memory ids only
AppendNew_MemoryOnly(acc, s) == acc

\* lines 502-505: the persisted ids not yet in channel_ids are appended
RECURSIVE AppendNew(_, _)
AppendNew(acc, s) ==
    IF s = << >> THEN acc
    ELSE AppendNew(IF Head(s) \in Range(acc) THEN acc ELSE Append(acc, Head(s)), Tail(s))

\* a teardown that empties the persisted entry of the match but keeps its key
PopPersisted_KeepsKey(g, mid) == [active_matches EXCEPT ![g][mid] = Entry(<< >>)]

\* the match popped from the local copy only, the record never written back
PopPersisted_NotSaved(g, mid) == active_matches

\* lines 506-507: the persisted record without the match
PopPersisted(g, mid) == [active_matches EXCEPT ![g][mid] = NoEntry]

\* _cleanup_match_voice; e names the calls that fail in this invocation
CleanupMatchVoice(g, mid, e) ==
    LET mem == active_voice[g][mid]
        per == active_matches[g][mid]
        ids == AppendNew(mem.channels, per.channels)
        av1 == [active_voice EXCEPT ![g][mid] = NoEntry]
        write_raises == per.present /\ e.persistFail
    IN IF write_raises
       THEN [HandlerBase EXCEPT !.raised = TRUE, !.av = av1, !.used = 1,
                                !.op = "teardown", !.outcome = "raised"]
       ELSE
       LET targets == SeqFilter(ids, {c \in DOMAIN channels : channels[c].guild = g})
           occupants == {d \in DiscordIds : voice[d] \in Range(targets)}
           moved == IF lobby_vc[g] THEN occupants \ {e.moveFail} ELSE {}
           del_failed == IF e.delFailAt \in 1..Len(targets) THEN {targets[e.delFailAt]} ELSE {}
           deleted == Range(targets) \ del_failed
       IN [HandlerBase EXCEPT
             !.av = av1,
             !.am = IF per.present THEN PopPersisted(g, mid) ELSE active_matches,
             !.ch = [c \in DOMAIN channels \ deleted |-> channels[c]],
             !.vo = [d \in DiscordIds |->
                       IF d \in moved THEN Lobby(g)
                       ELSE IF voice[d] \in deleted THEN NoVoice ELSE voice[d]],
             !.used = B2N(del_failed # {}) + B2N(lobby_vc[g] /\ e.moveFail \in occupants),
             !.op = "teardown", !.outcome = "ok",
             !.delete_attempts = targets,
             !.delete_failed = del_failed,
             !.moved = moved,
             !.events = IF targets = << >> THEN << >>
                        ELSE << <<"channels_torn_down", g, mid>> >> ]

\* a reminder for every resolved participant, wherever they are
RemindParticipants_Everyone(g, match, teams, e) ==
    LET due == IF lobby_vc[g] THEN AllMembers(teams) ELSE {}
        reminded == due \ {e.dmFail}
    IN [HandlerBase EXCEPT
          !.op = "remind", !.outcome = "ok", !.reminded = reminded,
          !.remind_failed = due \ reminded,
          !.used = B2N(e.dmFail \in due),
          !.events = IF reminded = {} THEN << >>
                     ELSE << <<"match_waiting", g, match.id>> >> ]

\* lines 231-249: with a waiting channel, every resolved participant who is
\* not in it is sent a reminder; a send that raises is logged and the loop
\* goes on with the next participant
RemindParticipants(g, match, teams, e) ==
    LET due == IF lobby_vc[g]
               THEN {d \in AllMembers(teams) : voice[d] # Lobby(g)}
               ELSE {}
        reminded == due \ {e.dmFail}
    IN [HandlerBase EXCEPT
          !.op = "remind", !.outcome = "ok", !.reminded = reminded,
          !.remind_failed = due \ reminded,
          !.used = B2N(e.dmFail \in due),
          !.events = IF reminded = {} THEN << >>
                     ELSE << <<"match_waiting", g, match.id>> >> ]

\* a handler that tears the channels down only once the results are announced
OnStateChange_TeardownIfAnnounced(g, t, match, new, e) ==
    IF e.raise
    THEN [HandlerBase EXCEPT !.raised = TRUE, !.used = 1, !.outcome = "raised"]
    ELSE
    LET teams == ResolveTeams(g, match) IN
    CASE new = "WAITING" -> RemindParticipants(g, match, teams, e)
      [] new = "RUNNING" -> CreateAndMove(g, match, teams, e)
      [] new \in TerminalStates ->
           LET sent == update_channel[g] /\ ~e.sendFail
               r == CleanupMatchVoice(g, match.id, e)
           IN IF sent
              THEN [r EXCEPT !.events = << <<"match_concluded", g, match.id>> >> \o r.events,
                             !.announced = "sent"]
              ELSE [HandlerBase EXCEPT
                      !.used = B2N(update_channel[g] /\ e.sendFail),
                      !.announced = IF update_channel[g] THEN "failed" ELSE "none"]
      [] OTHER -> HandlerBase

\* _on_state_change for one match whose state changed to new
OnStateChange(g, t, match, new, e) ==
    IF e.raise
    THEN [HandlerBase EXCEPT !.raised = TRUE, !.used = 1, !.outcome = "raised"]
    ELSE
    LET teams == ResolveTeams(g, match) IN
    CASE new = "WAITING" -> RemindParticipants(g, match, teams, e)
      [] new = "RUNNING" -> CreateAndMove(g, match, teams, e)
      [] new \in TerminalStates ->
           \* lines 257-273: the announcement is sent inside try/except-pass,
           \* line 274: the teardown follows whatever became of it
           LET sent == update_channel[g] /\ ~e.sendFail
               r == CleanupMatchVoice(g, match.id, e)
           IN [r EXCEPT !.events =
                 (IF sent THEN << <<"match_concluded", g, match.id>> >> ELSE << >>)
                 \o r.events,
                        !.used = r.used + B2N(update_channel[g] /\ e.sendFail),
                        !.announced = IF sent THEN "sent"
                                      ELSE IF update_channel[g] THEN "failed" ELSE "none"]
      [] OTHER -> HandlerBase

\* the failing calls the environment may pick for one handler invocation
NoFault == [raise |-> FALSE, createFailAt |-> 0, persistFail |-> FALSE,
            delFailAt |-> 0, moveFail |-> None, sendFail |-> FALSE,
            dmFail |-> None]

Chosen(e) ==
    B2N(e.raise) + B2N(e.createFailAt # 0) + B2N(e.persistFail)
    + B2N(e.delFailAt # 0) + B2N(e.moveFail # None) + B2N(e.sendFail)
    + B2N(e.dmFail # None)

FaultChoices(g, match, new) ==
    LET width == Len(match.lineups)
                 + Len(active_voice[g][match.id].channels)
                 + Len(active_matches[g][match.id].channels) + 1
        acts == new \in TerminalStates \cup {"RUNNING"}
    IN IF faults = 0 THEN {NoFault}
       ELSE { e \in [ raise : BOOLEAN,
                      createFailAt : IF new = "RUNNING" THEN 0..width ELSE {0},
                      persistFail : IF acts THEN BOOLEAN ELSE {FALSE},
                      delFailAt : IF acts THEN 0..width ELSE {0},
                      moveFail : IF acts THEN DiscordIds \cup {None} ELSE {None},
                      sendFail : IF new \in TerminalStates /\ update_channel[g]
                                 THEN BOOLEAN ELSE {FALSE},
                      dmFail : IF new = "WAITING" /\ lobby_vc[g]
                               THEN DiscordIds \cup {None} ELSE {None} ] :
                /\ Chosen(e) <= faults
                /\ e.raise => Chosen(e) = 1 }

\* a sweep that forgets what it knew of a tournament it could not fetch
SkippedTournament_Forgotten(g, t) ==
    [state_cache EXCEPT ![g][t] = [m \in MatchIds |-> Absent]]

\* lines 172-173: `if not tdata: continue` comes before the cache is touched
SkippedTournament(g, t) == state_cache

\* lines 171-188 of _process_guild: fetch one tournament, diff its state
ProcessTournament ==
    /\ pc = "fetch"
    /\ \E ok \in IF faults > 0 THEN BOOLEAN ELSE {TRUE} :
        LET g == GuildList[gi]
            t == TournamentsOf(g)[ti]
            data == Graphql(ok, t)
            td == FetchTournamentMatches(data)
            after == NextTournament(gi, ti)
        IN IF IsNone(td)
           THEN /\ pc' = after.pc /\ gi' = after.gi /\ ti' = after.ti /\ mi' = 1
                /\ report' = [NoReport EXCEPT !.action = "fetch", !.g = g, !.t = t,
                                              !.outcome = "no_data"]
                /\ faults' = faults - 1
                /\ state_cache' = SkippedTournament(g, t)
                /\ UNCHANGED << t_state_cache, tdata, observed_t, events >>
           ELSE LET prev_t_state == t_state_cache[g][t]
                    new_t_state == DictGet(td, "state")
                    evs == IF new_t_state # prev_t_state
                           THEN OnTournamentStateChange(g, t, prev_t_state, new_t_state)
                           ELSE << >>
                IN /\ UNCHANGED faults
                   /\ t_state_cache' = [t_state_cache EXCEPT ![g][t] = new_t_state]
                   /\ observed_t' = [observed_t EXCEPT ![g][t] = data.tournament.state]
                   /\ report' = [NoReport EXCEPT
                                   !.action = "fetch", !.g = g, !.t = t, !.outcome = "ok",
                                   !.prev_observed = observed_t[g][t],
                                   !.observed = data.tournament.state,
                                   !.events = evs,
                                   !.finished = (td.matches = << >>),
                                   !.snapshot = CurrentOf(td)]
                   /\ events' = Log(evs)
                   /\ IF td.matches = << >>
                      THEN /\ state_cache' = [state_cache EXCEPT ![g][t] = CurrentOf(td)]
                           /\ pc' = after.pc /\ gi' = after.gi /\ ti' = after.ti /\ mi' = 1
                           /\ tdata' = NoData
                      ELSE /\ pc' = "match" /\ mi' = 1 /\ tdata' = td
                           /\ UNCHANGED << state_cache, gi, ti >>
    /\ UNCHANGED << remote_t, remote_m, budget, voice, active_voice,
                    active_matches, channels, nextChannelId, live >>
    /\ UNCHANGED << envVars, sideVars >>
    /\ UNCHANGED << failed_creation, authVars, lifeVars >>

\* lines 190-198 of _process_guild: one match of the snapshot, then (after the
\* last one) the cache update; a raising handler ends the guild's processing
HandleMatch ==
    /\ pc = "match"
    /\ LET g == GuildList[gi]
           t == TournamentsOf(g)[ti]
           match == tdata.matches[mi]
           mid == match.id
           old_state == state_cache[g][t][mid]
           new_state == match.state
           last == (mi = Len(tdata.matches))
           after == NextTournament(gi, ti)
           \* the first n matches of the snapshot whose state differs from the
           \* cached one (prev is not written before the loop ends)
           Changed(n) == {tdata.matches[j].id : j \in
                            {i \in 1..n : tdata.matches[i].state # state_cache[g][t][tdata.matches[i].id]}}
           Continue ==
               IF last
               THEN /\ state_cache' = [state_cache EXCEPT ![g][t] = CurrentOf(tdata)]
                    /\ pc' = after.pc /\ gi' = after.gi /\ ti' = after.ti /\ mi' = 1
                    /\ tdata' = NoData
               ELSE /\ mi' = mi + 1
                    /\ UNCHANGED << state_cache, pc, gi, ti, tdata >>
       IN IF new_state = old_state
          THEN /\ Continue
               /\ report' = [NoReport EXCEPT !.action = "match", !.g = g, !.t = t, !.m = mid,
                                             !.old = old_state, !.new = new_state,
                                             !.finished = last,
                                             !.snapshot = CurrentOf(tdata),
                                             !.changed = Changed(Len(tdata.matches)),
                                             !.invoked = Changed(mi)]
               /\ UNCHANGED << faults, voice, active_voice, active_matches, channels,
                               nextChannelId, live, events, failed_creation, handled >>
          ELSE \E e \in FaultChoices(g, match, new_state) :
               \E r \in {OnStateChange(g, t, match, new_state, e)} :
               /\ r.used = Chosen(e)
               /\ r.used <= faults
               /\ r.next <= MaxChannels + 1
               /\ faults' = faults - r.used
               /\ active_voice' = r.av
               /\ active_matches' = r.am
               /\ channels' = r.ch
               /\ voice' = r.vo
               /\ nextChannelId' = r.next
               /\ events' = Log(r.events)
               /\ live' = IF r.op = "create" /\ r.outcome = "ok"
                          THEN [live EXCEPT ![g][mid] = TRUE]
                          ELSE IF r.op = "teardown" /\ r.outcome = "ok"
                               THEN [live EXCEPT ![g][mid] = FALSE]
                               ELSE live
               /\ handled' = IF r.op = "teardown"
                             THEN [handled EXCEPT ![g][mid] = new_state]
                             ELSE handled
               /\ failed_creation' = [failed_creation EXCEPT
                                        ![g][mid] = (r.op = "create" /\ r.outcome = "failed")]
               /\ report' = [NoReport EXCEPT
                               !.action = "match", !.g = g, !.t = t, !.m = mid,
                               !.old = old_state, !.new = new_state, !.handler = TRUE,
                               !.op = r.op, !.outcome = r.outcome, !.created = r.created,
                               !.delete_attempts = r.delete_attempts,
                               !.delete_failed = r.delete_failed, !.moved = r.moved,
                               !.move_failed = r.move_failed,
                               !.reminded = r.reminded,
                               !.remind_failed = r.remind_failed, !.events = r.events,
                               !.announced = r.announced,
                               !.repeated = (r.op = "teardown"
                                             /\ handled[g][mid] = new_state),
                               !.finished = (last \/ r.raised), !.aborted = r.raised,
                               !.snapshot = CurrentOf(tdata),
                               !.changed = Changed(Len(tdata.matches)),
                               !.invoked = Changed(mi)]
               /\ IF r.raised
                  THEN LET ng == NextGuild(gi) IN
                       /\ pc' = ng.pc /\ gi' = ng.gi /\ ti' = ng.ti /\ mi' = 1
                       /\ tdata' = NoData
                       /\ UNCHANGED state_cache
                  ELSE Continue
    /\ UNCHANGED << remote_t, remote_m, budget, t_state_cache, observed_t >>
    /\ UNCHANGED << envVars, storeVars, cadenceVars, logVars, startVars >>
    /\ UNCHANGED authVars

\* the poll task handling one match while nothing else touches the process
ProcessMatch == HandleMatch /\ UNCHANGED lifeVars

Next == RemoteAdvance \/ TickAllGuilds \/ ProcessTournament \/ ProcessMatch

Spec == Init /\ [][Next]_vars

\* ------------------------------------------------- the lockstep scenario
\* Tournament t2 and its single match m3 move WAITING, RUNNING, COMPLETED in
\* lockstep; every state is polled by exactly one sweep, none of whose calls fails.
ScenarioStates == <<"WAITING", "RUNNING", "COMPLETED">>
ScenarioTournament == "t2"
ScenarioMatch == "m3"
ScenarioGuilds == {g \in Guilds : ScenarioTournament \in Range(TournamentsOf(g))}

InitScenario ==
    /\ remote_t = [t \in TournamentIds |-> ScenarioStates[1]]
    /\ remote_m = [m \in MatchIds |-> IF m = ScenarioMatch THEN ScenarioStates[1] ELSE Absent]
    /\ budget = Len(ScenarioStates) - 1
    /\ faults = 0
    /\ \E status \in [RemoteUsers -> UserStatuses], upd \in BOOLEAN, lob \in BOOLEAN :
          InitEnv(status, upd, lob)
    /\ logging = TRUE
    /\ InitMonitor
    /\ InitAuth(TRUE, TRUE)
    /\ InitStarted
    /\ InitSide

\* every guild that follows the tournament has polled its current state
ScenarioPolled ==
    \A g \in ScenarioGuilds : observed_t[g][ScenarioTournament] = remote_t[ScenarioTournament]

ScenarioTick == ~ScenarioPolled /\ TickAllGuilds

ScenarioAdvance ==
    /\ pc = "sleep"
    /\ ScenarioPolled
    /\ budget > 0
    /\ budget' = budget - 1
    /\ LET s == ScenarioStates[Len(ScenarioStates) - budget + 1] IN
       /\ remote_t' = [remote_t EXCEPT ![ScenarioTournament] = s]
       /\ remote_m' = [remote_m EXCEPT ![ScenarioMatch] = s]
    /\ report' = NoReport
    /\ UNCHANGED << faults, voice, state_cache, t_state_cache, active_voice,
                    active_matches, channels, nextChannelId, pc, gi, ti, mi, tdata,
                    live, observed_t, events >>
    /\ UNCHANGED << envVars, storeVars, cadenceVars, logVars, startVars >>
    /\ UNCHANGED << failed_creation, authVars, lifeVars >>
    /\ handled' = Seen(remote_m')

NextScenario == ScenarioAdvance \/ ScenarioTick \/ ProcessTournament \/ ProcessMatch

SpecScenario == InitScenario /\ [][NextScenario]_vars

ScenarioDone == pc = "sleep" /\ budget = 0 /\ ScenarioPolled

\* the notifications of guild g about the scenario's tournament and match, of
\* the five kinds the scenario names
RECURSIVE ScenarioEvents(_, _)
ScenarioEvents(log, g) ==
    IF log = << >> THEN << >>
    ELSE (IF /\ Head(log)[2] = g
             /\ Head(log)[1] \in {"tournament_started", "match_waiting", "channels_created",
                                  "channels_torn_down", "tournament_concluded"}
          THEN <<Head(log)>> ELSE << >>)
         \o ScenarioEvents(Tail(log), g)

ParticipantsOf(m) == UNION {Range(LineupsOf(m)[i].members) : i \in 1..Len(LineupsOf(m))}

\* a remote user with a link whose local id is a member of guild g
IsLinkedMember(g, u) == links[u] # None /\ links[u] \in guild_members[g]

\* ------------------------------------------------------ the token manager
\* clock values and token lifetimes are multiples of TimeStep seconds
MaxClock == 120
\* access tokens the exchange endpoint issues in one behaviour
MaxTokens == 2
\* line 881: a cached token is reused while more than 60 s remain
SafetyMargin == 60
\* lines 919 and 922: lifetime assumed when expiresAt is missing or unreadable
FallbackLifetime == 1100
TimeStep == 30
TokenLifetimes == {60, 90}

\* a cached token that counts as valid whenever it has not expired yet
CachedValid_NoMargin(cfg, now) ==
    /\ cfg.API_Access_Token # NoToken
    /\ cfg.API_Access_Expires_At # 0
    /\ cfg.API_Access_Expires_At - now > 0

\* line 881: cached_token and expires_at and (expires_at - now) > 60
CachedValid(cfg, now) ==
    /\ cfg.API_Access_Token # NoToken
    /\ cfg.API_Access_Expires_At # 0
    /\ cfg.API_Access_Expires_At - now > SafetyMargin

\* what the token endpoint may answer to one exchange
ExchangeOutcomes ==
    [kind : {"ok"}, ttl : TokenLifetimes]
    \cup [kind : {"no_expiry", "bad_expiry", "no_value", "rejected", "exception"}, ttl : {0}]

\* the endpoint's answers to the renewal inside a request
RenewalOutcomes == {x \in ExchangeOutcomes : x.kind \in {"rejected", "no_expiry", "no_value"}}
\* the answer drawn when the endpoint is not asked
Unasked == [kind |-> "rejected", ttl |-> 0]

\* lines 908-924: the expiry stored for an answer received at now
StoredExpiry(x, now) ==
    IF x.kind \in {"ok", "no_value"} /\ x.ttl # 0 THEN now + x.ttl ELSE now + FallbackLifetime

\* a token manager that falls back on the cached token when the endpoint
\* refuses the exchange
EnsureAccessToken_StaleOnReject(cfg, now, n, x) ==
    IF CachedValid(cfg, now)
    THEN [config |-> cfg, value |-> cfg.API_Access_Token, exchanges |-> 0, issued |-> n]
    ELSE IF ~cfg.API_Refresh_Token \/ ~cfg.API_Token_URL
    THEN [config |-> cfg, value |-> NoToken, exchanges |-> 0, issued |-> n]
    ELSE IF x.kind \in {"rejected", "exception"}
    THEN [config |-> cfg, value |-> cfg.API_Access_Token, exchanges |-> 1, issued |-> n]
    ELSE LET token == IF x.kind = "no_value" THEN NoToken ELSE n + 1 IN
         [ config |-> [cfg EXCEPT !.API_Access_Token = token,
                                  !.API_Access_Expires_At = StoredExpiry(x, now)],
           value |-> token, exchanges |-> 1,
           issued |-> IF token = NoToken THEN n ELSE n + 1 ]

\* _ensure_access_token at time now, n tokens issued so far, x the endpoint's
\* answer if it is asked: the settings afterwards, the value returned, the
\* exchange calls made
EnsureAccessToken(cfg, now, n, x) ==
    IF CachedValid(cfg, now)
    THEN [config |-> cfg, value |-> cfg.API_Access_Token, exchanges |-> 0, issued |-> n]
    ELSE IF ~cfg.API_Refresh_Token \/ ~cfg.API_Token_URL
    THEN [config |-> cfg, value |-> NoToken, exchanges |-> 0, issued |-> n]
    ELSE IF x.kind \in {"rejected", "exception"}
    THEN [config |-> cfg, value |-> NoToken, exchanges |-> 1, issued |-> n]
    ELSE LET token == IF x.kind = "no_value" THEN NoToken ELSE n + 1 IN
         [ config |-> [cfg EXCEPT !.API_Access_Token = token,
                                  !.API_Access_Expires_At = StoredExpiry(x, now)],
           value |-> token, exchanges |-> 1,
           issued |-> IF token = NoToken THEN n ELSE n + 1 ]

IsAuthErrorCode(body) ==
    \E i \in 1..Len(body.errors) : body.errors[i].code = "AUTH_NOT_AUTHENTICATED"

\* the API's answers: a transport failure or timeout, or a status with a body
NoBody == [kind |-> "none", errors |-> << >>]
NoResponse == [status |-> None, body |-> NoBody]
GraphqlErrors ==
    { << >>,
      << [code |-> "AUTH_NOT_AUTHENTICATED", mentions_auth |-> FALSE] >>,
      << [code |-> "OTHER", mentions_auth |-> TRUE] >>,
      << [code |-> "OTHER", mentions_auth |-> FALSE] >> }
Bodies == {[kind |-> "text", errors |-> << >>]} \cup [kind : {"json"}, errors : GraphqlErrors]
Responses ==
    {NoResponse} \cup [status : {"200"}, body : Bodies]
    \cup {[status |-> "500", body |-> b] : b \in {x \in Bodies : Len(x.errors) = 0 \/ IsAuthErrorCode(x)}}

\* the API's answers to a retried call
RetryResponses ==
    {NoResponse} \cup {r \in Responses : r.status = "200" /\ Len(r.body.errors) = 0}
    \cup {r \in Responses : IsAuthErrorCode(r.body)}

\* an auth error recognised by its code only
IsAuthError_CodeOnly(body) ==
    /\ body.kind = "json"
    /\ \E i \in 1..Len(body.errors) : body.errors[i].code = "AUTH_NOT_AUTHENTICATED"

\* lines 774-782, _is_auth_error: some error has the code AUTH_NOT_AUTHENTICATED
\* or a message containing "auth" ("not authorized" contains it)
IsAuthError(body) ==
    /\ body.kind = "json"
    /\ \E i \in 1..Len(body.errors) :
          body.errors[i].code = "AUTH_NOT_AUTHENTICATED" \/ body.errors[i].mentions_auth

\* lines 729-746 and 800-809: (payload, status) for one response; no payload
\* for a transport failure and for a body that is not JSON
ParsedResult(r) ==
    IF r.body.kind = "json" THEN [payload |-> r.body, status |-> r.status]
    ELSE [payload |-> NoBody, status |-> r.status]

\* a requester that renews and retries on an auth error whatever the status
GraphqlRaw_RetryAnyStatus(cfg, now, n, x1, r1, clear_ok, x2, r2) ==
    LET a1 == EnsureAccessToken(cfg, now, n, x1)
        base == [ config |-> a1.config, issued |-> a1.issued, returned |-> a1.value,
                  exchanges |-> a1.exchanges, reexchanges |-> 0, calls |-> 0,
                  cleared |-> FALSE, payload |-> NoBody, status |-> None ]
    IN IF a1.value = NoToken THEN base
       ELSE IF ~IsAuthError(r1.body)
       THEN [base EXCEPT !.calls = 1, !.payload = ParsedResult(r1).payload,
                         !.status = ParsedResult(r1).status]
       ELSE LET cfg2 == IF clear_ok
                        THEN [a1.config EXCEPT !.API_Access_Token = NoToken,
                                               !.API_Access_Expires_At = 0]
                        ELSE a1.config
                a2 == EnsureAccessToken(cfg2, now, a1.issued, x2)
                again == [base EXCEPT
                            !.config = a2.config, !.issued = a2.issued,
                            !.returned = a2.value,
                            !.exchanges = a1.exchanges + a2.exchanges,
                            !.reexchanges = a2.exchanges,
                            !.cleared = (cfg2.API_Access_Token = NoToken)]
            IN IF a2.value = NoToken
               THEN [again EXCEPT !.calls = 1, !.payload = r1.body, !.status = r1.status]
               ELSE [again EXCEPT !.calls = 2, !.payload = ParsedResult(r2).payload,
                                  !.status = ParsedResult(r2).status]

\* a requester that sends the retry even when the renewal gave no token
GraphqlRaw_RetryWithoutToken(cfg, now, n, x1, r1, clear_ok, x2, r2) ==
    LET a1 == EnsureAccessToken(cfg, now, n, x1)
        base == [ config |-> a1.config, issued |-> a1.issued, returned |-> a1.value,
                  exchanges |-> a1.exchanges, reexchanges |-> 0, calls |-> 0,
                  cleared |-> FALSE, payload |-> NoBody, status |-> None ]
    IN IF a1.value = NoToken THEN base
       ELSE IF ~(r1.status = "200" /\ IsAuthError(r1.body))
       THEN [base EXCEPT !.calls = 1, !.payload = ParsedResult(r1).payload,
                         !.status = ParsedResult(r1).status]
       ELSE LET cfg2 == IF clear_ok
                        THEN [a1.config EXCEPT !.API_Access_Token = NoToken,
                                               !.API_Access_Expires_At = 0]
                        ELSE a1.config
                a2 == EnsureAccessToken(cfg2, now, a1.issued, x2)
                again == [base EXCEPT
                            !.config = a2.config, !.issued = a2.issued,
                            !.returned = a2.value,
                            !.exchanges = a1.exchanges + a2.exchanges,
                            !.reexchanges = a2.exchanges,
                            !.cleared = (cfg2.API_Access_Token = NoToken)]
            IN IF FALSE
               THEN [again EXCEPT !.calls = 1, !.payload = r1.body, !.status = r1.status]
               ELSE [again EXCEPT !.calls = 2, !.payload = ParsedResult(r2).payload,
                                  !.status = ParsedResult(r2).status]

\* _graphql_raw: x1, x2 are the endpoint's answers to the exchanges, r1, r2 the
\* API's answers to the call and its retry, clear_ok whether the settings
\* could be written when the cached token is cleared
GraphqlRaw(cfg, now, n, x1, r1, clear_ok, x2, r2) ==
    LET a1 == EnsureAccessToken(cfg, now, n, x1)
        base == [ config |-> a1.config, issued |-> a1.issued, returned |-> a1.value,
                  exchanges |-> a1.exchanges, reexchanges |-> 0, calls |-> 0,
                  cleared |-> FALSE, payload |-> NoBody, status |-> None ]
    IN IF a1.value = NoToken THEN base
       ELSE IF ~(r1.status = "200" /\ IsAuthError(r1.body))
       THEN [base EXCEPT !.calls = 1, !.payload = ParsedResult(r1).payload,
                         !.status = ParsedResult(r1).status]
       ELSE LET cfg2 == IF clear_ok
                        THEN [a1.config EXCEPT !.API_Access_Token = NoToken,
                                               !.API_Access_Expires_At = 0]
                        ELSE a1.config
                a2 == EnsureAccessToken(cfg2, now, a1.issued, x2)
                again == [base EXCEPT
                            !.config = a2.config, !.issued = a2.issued,
                            !.returned = a2.value,
                            !.exchanges = a1.exchanges + a2.exchanges,
                            !.reexchanges = a2.exchanges,
                            !.cleared = (cfg2.API_Access_Token = NoToken)]
            IN IF a2.value = NoToken
               THEN [again EXCEPT !.calls = 1, !.payload = r1.body, !.status = r1.status]
               ELSE [again EXCEPT !.calls = 2, !.payload = ParsedResult(r2).payload,
                                  !.status = ParsedResult(r2).status]

\* the token manager and the requester called on their own (api_test, a fetch)
otherVars == << remote_t, remote_m, budget, faults, voice, state_cache, t_state_cache,
                active_voice, active_matches, channels, nextChannelId, pc, gi, ti, mi,
                tdata, live, observed_t, report, events, failed_creation >>

InitAuthSpec ==
    /\ InitQuiet
    /\ faults = 0
    /\ \E refresh \in BOOLEAN, url \in BOOLEAN : InitAuth(refresh, url)
    /\ InitStarted
    /\ InitSide

\* time passes
Advance ==
    /\ clock + TimeStep <= MaxClock
    /\ clock' = clock + TimeStep
    /\ api' = NoApi
    /\ UNCHANGED << config, issued, otherVars, envVars, sideVars, lifeVars >>

\* one call of _ensure_access_token
EnsureCall ==
    /\ \E x \in ExchangeOutcomes :
         \E a \in {EnsureAccessToken(config, clock, issued, x)} :
         /\ (a.exchanges = 0 => x = Unasked)
         /\ a.issued <= MaxTokens
         /\ config' = a.config
         /\ issued' = a.issued
         /\ api' = [NoApi EXCEPT !.op = "ensure", !.before = config, !.at = clock,
                                 !.returned = a.value, !.exchanges = a.exchanges,
                                 !.answer = IF a.exchanges = 1 THEN x.kind ELSE "unasked"]
    /\ UNCHANGED << clock, otherVars, envVars, sideVars, lifeVars >>

\* one call of _graphql_raw; the answers are drawn only where somebody asks
RequestCall ==
    /\ \E x1 \in IF CachedValid(config, clock) THEN {Unasked} ELSE ExchangeOutcomes,
          r1 \in Responses :
       LET renew == r1.status = "200" /\ r1.body.kind = "json" /\ r1.body.errors # << >> IN
       \E clear_ok \in IF renew THEN BOOLEAN ELSE {TRUE},
          x2 \in IF renew THEN RenewalOutcomes ELSE {Unasked},
          r2 \in IF renew THEN RetryResponses ELSE {NoResponse} :
         \E q \in {GraphqlRaw(config, clock, issued, x1, r1, clear_ok, x2, r2)} :
         /\ (q.exchanges - q.reexchanges = 0 => x1 = Unasked)
         /\ (q.calls = 0 => r1 = NoResponse)
         /\ (q.reexchanges = 0 => x2 = Unasked)
         /\ (q.calls < 2 => r2 = NoResponse /\ (q.reexchanges = 0 => clear_ok))
         /\ q.issued <= MaxTokens
         /\ config' = q.config
         /\ issued' = q.issued
         /\ api' = [NoApi EXCEPT !.op = "request", !.before = config, !.at = clock,
                                 !.returned = q.returned, !.exchanges = q.exchanges,
                                 !.reexchanges = q.reexchanges, !.calls = q.calls,
                                 !.answer = IF q.reexchanges = 1 THEN x2.kind ELSE "unasked",
                                 !.ensured = EnsureAccessToken(config, clock, issued, x1).config,
                                 !.first = IF q.calls >= 1 THEN r1 ELSE NoResponse,
                                 !.second = IF q.calls = 2 THEN r2 ELSE NoResponse,
                                 !.cleared = q.cleared,
                                 !.payload = q.payload, !.status = q.status]
    /\ UNCHANGED << clock, otherVars, envVars, sideVars, lifeVars >>

NextAuth == Advance \/ EnsureCall \/ RequestCall

SpecAuth == InitAuthSpec /\ [][NextAuth]_vars

\* ------------------------------------------------- start, stop and restart
\* remote changes, environment faults and restarts of the life-cycle runs
MaxLifeChanges == 3

MaxLifeFaults == 1

MaxRestarts == 1

\* a match series moves forward only
Rank(s) ==
    CASE s = Absent -> 0 [] s = "WAITING" -> 1 [] s = "RUNNING" -> 2
      [] s = "COMPLETED" -> 3 [] OTHER -> 4

LifeStates == {"WAITING", "RUNNING", "COMPLETED", "CANCELLED"}

\* the match series that moves in the life-cycle runs: the one of the
\* tournament both guilds track
LifeMatchIds == {"m3"}

\* what the history remembers of a step that reported r
Record(h, r) ==
    LET earlier == {x \in h.torn : x[1] = r.g /\ x[2] = r.m} IN
    [h EXCEPT
       !.made = @ \cup r.created,
       !.delete_failed = @ \/ r.delete_failed # {},
       !.again = IF r.op = "teardown" /\ earlier # {}
                 THEN (CHOOSE x \in earlier : TRUE)[3] ELSE -1,
       !.listed = {}, !.held = {}, !.before = {},
       !.torn = IF r.op = "teardown" /\ r.outcome = "ok"
                THEN (@ \ earlier) \cup {<< r.g, r.m, Len(r.delete_attempts) >>}
                ELSE IF r.op \in {"create", "teardown"} THEN @ \ earlier
                ELSE @ ]

\* the process lost: what was only in memory is gone
Forgotten ==
    /\ state_cache' = [g \in Guilds |-> [t \in TournamentIds |-> [m \in MatchIds |-> Absent]]]
    /\ t_state_cache' = [g \in Guilds |-> [t \in TournamentIds |-> None]]
    /\ active_voice' = [g \in Guilds |-> [m \in MatchIds |-> NoEntry]]

AtRest == pc' = "sleep" /\ gi' = 1 /\ ti' = 1 /\ mi' = 1 /\ tdata' = NoData

\* the match the sweep is about to handle, when its state differs from the cache
Current ==
    LET g == GuildList[gi]
        t == TournamentsOf(g)[ti]
        match == tdata.matches[mi]
    IN [ g |-> g, t |-> t, match |-> match,
         changed |-> match.state # state_cache[g][t][match.id] ]

\* line 529: the matches the persisted record of guild g lists
Listed(g) == {m \in MatchIds : active_matches[g][m].present}

\* line 534: the record is walked in insertion order, the order of creation
FirstId(g, m) ==
    IF active_matches[g][m].channels = << >> THEN 0 ELSE active_matches[g][m].channels[1]

\* _cleanup_all, lines 527-531: the next guild from index i on with a non-empty
\* record, 0 when there is none
NextListedGuild(i) ==
    IF \E j \in i..Len(GuildList) : Listed(GuildList[j]) # {}
    THEN CHOOSE j \in i..Len(GuildList) :
            /\ Listed(GuildList[j]) # {}
            /\ \A k \in i..(j - 1) : Listed(GuildList[k]) = {}
    ELSE 0

\* the points at which a handler that is cancelled or killed can have stopped
\*   "created": k channels exist, nothing recorded        (lines 436-474)
\*   "memory":  all channels exist, the in-memory key is set, nothing persisted (475-482)
\*   "popped":  both records are without the match, k channels deleted (508-523)
Cuts(g, match, new) ==
    LET mid == match.id
        n == Len(PlanChannels(match, ResolveTeams(g, match)))
        ids == AppendNew(active_voice[g][mid].channels, active_matches[g][mid].channels)
        targets == SeqFilter(ids, {c \in DOMAIN channels : channels[c].guild = g})
    IN {[mode |-> "none", k |-> 0]}
       \cup (IF new = "RUNNING" /\ ~active_voice[g][mid].present
             THEN [mode : {"created"}, k : 1..n] \cup {[mode |-> "memory", k |-> n]}
             ELSE {})
       \cup (IF new \in TerminalStates /\ targets # << >>
             THEN [mode : {"popped"}, k : 0..(Len(targets) - 1)]
             ELSE {})

\* the state a handler leaves behind when it stops at cut
Interrupted(g, match, new, cut) ==
    LET mid == match.id IN
    CASE cut.mode \in {"created", "memory"} ->
           LET planned == PlanChannels(match, ResolveTeams(g, match))
               ids == [i \in 1..cut.k |-> nextChannelId + i - 1]
           IN [HandlerBase EXCEPT
                 !.op = "create", !.outcome = "interrupted",
                 !.created = Range(ids),
                 !.next = nextChannelId + cut.k,
                 !.av = IF cut.mode = "memory"
                        THEN [active_voice EXCEPT ![g][mid] = Entry(ids)]
                        ELSE active_voice,
                 !.ch = [c \in DOMAIN channels \cup Range(ids) |->
                           IF c \in DOMAIN channels THEN channels[c]
                           ELSE LET i == CHOOSE i \in 1..cut.k : ids[i] = c
                                IN [ guild |-> g, match |-> mid, name |-> planned[i].name,
                                     default_deny |-> planned[i].default_deny,
                                     allow |-> planned[i].allow ] ] ]
      [] cut.mode = "popped" ->
           LET ids == AppendNew(active_voice[g][mid].channels, active_matches[g][mid].channels)
               targets == SeqFilter(ids, {c \in DOMAIN channels : channels[c].guild = g})
               deleted == {targets[i] : i \in 1..cut.k}
           IN [HandlerBase EXCEPT
                 !.op = "teardown", !.outcome = "interrupted",
                 !.av = [active_voice EXCEPT ![g][mid] = NoEntry],
                 !.am = IF active_matches[g][mid].present
                        THEN PopPersisted(g, mid) ELSE active_matches,
                 !.delete_attempts = SubSeq(targets, 1, cut.k),
                 !.ch = [c \in DOMAIN channels \ deleted |-> channels[c]],
                 !.vo = [d \in DiscordIds |->
                           IF voice[d] \in deleted THEN NoVoice ELSE voice[d]] ]
      [] OTHER -> HandlerBase

\* the cuts possible where the poll task stands now
CutsNow ==
    IF pc = "match" /\ Current.changed
    THEN Cuts(Current.g, Current.match, Current.match.state)
    ELSE {[mode |-> "none", k |-> 0]}

InterruptedNow(cut) ==
    IF cut.mode = "none" THEN HandlerBase
    ELSE Interrupted(Current.g, Current.match, Current.match.state, cut)

LeftBehind(r, action) ==
    /\ r.next <= MaxChannels + 1
    /\ active_matches' = r.am
    /\ channels' = r.ch
    /\ voice' = r.vo
    /\ nextChannelId' = r.next
    /\ report' = [NoReport EXCEPT !.action = action, !.op = r.op, !.outcome = r.outcome,
                                  !.created = r.created,
                                  !.delete_attempts = r.delete_attempts]

lifeFrame == << remote_t, remote_m, budget, faults, t_state_cache, observed_t, events,
                live, failed_creation >>

InitLifecycle ==
    /\ remote_t = [t \in TournamentIds |-> "WAITING"]
    /\ remote_m = [m \in MatchIds |-> Absent]
    /\ budget = MaxLifeChanges
    /\ \E f \in 0..MaxLifeFaults : faults = f
    /\ InitEnv([u \in RemoteUsers |-> "member"], TRUE, TRUE)
    /\ logging = FALSE
    /\ InitMonitor
    /\ InitAuth(TRUE, TRUE)
    /\ InitStarted
    /\ InitSide

\* the remote service moves one match series forward
LifeRemote ==
    /\ pc = "sleep"
    /\ budget > 0
    /\ budget' = budget - 1
    /\ \E m \in LifeMatchIds, s \in LifeStates :
          /\ Rank(s) > Rank(remote_m[m])
          /\ remote_m' = [remote_m EXCEPT ![m] = s]
    /\ report' = NoReport
    /\ UNCHANGED << remote_t, faults, voice, state_cache, t_state_cache, active_voice,
                    active_matches, channels, nextChannelId, pc, gi, ti, mi, tdata,
                    live, observed_t, events, failed_creation >>
    /\ UNCHANGED << envVars, storeVars, cadenceVars, logVars, startVars, authVars, lifeVars >>
    /\ handled' = Seen(remote_m')

Sweeping == task = "alive" /\ job.at = "run"

\* _loop, line 146: a sweep starts only while _running is set
LifeTick == Sweeping /\ running /\ TickAllGuilds

LifeFetch == Sweeping /\ ProcessTournament

\* the handler of the current match runs from start to end
LifeMatch ==
    /\ Sweeping
    /\ HandleMatch
    /\ hist' = Record(hist, report')
    /\ UNCHANGED << running, task, job, stopper >>

\* line 244: the handler of a match found WAITING awaits the delivery of a reminder
ReminderPending ==
    /\ Sweeping
    /\ pc = "match"
    /\ Current.changed
    /\ Current.match.state = "WAITING"
    /\ lobby_vc[Current.g]
    /\ \E d \in AllMembers(ResolveTeams(Current.g, Current.match)) : voice[d] # Lobby(Current.g)
    /\ job' = [at |-> "remind", g |-> Current.g, m |-> Current.match.id]
    /\ report' = [NoReport EXCEPT !.action = "await_reminder", !.g = Current.g,
                                  !.m = Current.match.id]
    /\ UNCHANGED << remote_t, remote_m, budget, faults, voice, state_cache, t_state_cache,
                    active_voice, active_matches, channels, nextChannelId, pc, gi, ti, mi,
                    tdata, live, observed_t, events, failed_creation >>
    /\ UNCHANGED << envVars, sideVars, authVars, running, task, stopper, hist >>

\* the delivery returns and the handler, then the sweep, go on
ReminderDelivered ==
    /\ task = "alive"
    /\ job.at = "remind"
    /\ HandleMatch
    /\ job' = NoJob
    /\ hist' = Record(hist, report')
    /\ UNCHANGED << running, task, stopper >>

\* _loop, line 146: the loop finds _running cleared and the task ends
LoopExit ==
    /\ Sweeping
    /\ pc = "sleep"
    /\ ~running
    /\ task' = "ended"
    /\ report' = [NoReport EXCEPT !.action = "loop_exit"]
    /\ UNCHANGED << remote_t, remote_m, budget, faults, voice, state_cache, t_state_cache,
                    active_voice, active_matches, channels, nextChannelId, pc, gi, ti, mi,
                    tdata, live, observed_t, events, failed_creation >>
    /\ UNCHANGED << envVars, sideVars, authVars, running, job, stopper, hist >>

\* stop(), lines 133-136: clear _running and wait for the task
Stop ==
    /\ stopper.at = "idle"
    /\ task = "alive"
    /\ running' = FALSE
    /\ stopper' = [NoStop EXCEPT !.at = "waiting"]
    /\ report' = [NoReport EXCEPT !.action = "stop"]
    /\ UNCHANGED << remote_t, remote_m, budget, faults, voice, state_cache, t_state_cache,
                    active_voice, active_matches, channels, nextChannelId, pc, gi, ti, mi,
                    tdata, live, observed_t, events, failed_creation >>
    /\ UNCHANGED << envVars, sideVars, authVars, task, job, hist >>

\* stop(), lines 136 and 139-141: the task ended within the timeout
StopWaitDone ==
    /\ stopper.at = "waiting"
    /\ task = "ended"
    /\ task' = "none"
    /\ stopper' = [stopper EXCEPT !.at = "cleanup"]
    /\ report' = [NoReport EXCEPT !.action = "stop_joined"]
    /\ UNCHANGED << remote_t, remote_m, budget, faults, voice, state_cache, t_state_cache,
                    active_voice, active_matches, channels, nextChannelId, pc, gi, ti, mi,
                    tdata, live, observed_t, events, failed_creation >>
    /\ UNCHANGED << envVars, sideVars, authVars, running, job, hist >>

\* a stop() that gives up waiting and leaves the poll task running
StopTimeout_NoCancel ==
    /\ stopper.at = "waiting"
    /\ task = "alive"
    /\ stopper' = [stopper EXCEPT !.at = "cleanup"]
    /\ report' = [NoReport EXCEPT !.action = "stop_timeout"]
    /\ UNCHANGED << remote_t, remote_m, budget, faults, voice, state_cache, t_state_cache,
                    active_voice, active_matches, channels, nextChannelId, pc, gi, ti, mi,
                    tdata, live, observed_t, events, failed_creation >>
    /\ UNCHANGED << envVars, sideVars, authVars, running, task, job, hist >>

\* stop(), lines 136-139: the task did not end within 5 s; wait_for cancels it
\* where it stands, and CancelledError passes every "except Exception"
StopTimeout ==
    /\ stopper.at = "waiting"
    /\ task = "alive"
    /\ \E cut \in CutsNow :
          /\ LeftBehind(InterruptedNow(cut), "stop_timeout")
          /\ active_voice' = InterruptedNow(cut).av
          /\ hist' = [Record(hist, report') EXCEPT
                         !.cancelled = @ \/ cut.mode # "none" \/ job.at = "remind"]
    /\ AtRest
    /\ task' = "none"
    /\ job' = NoJob
    /\ stopper' = [stopper EXCEPT !.at = "cleanup"]
    /\ UNCHANGED << state_cache >>
    /\ UNCHANGED lifeFrame
    /\ UNCHANGED << envVars, sideVars, authVars, running >>

\* _cleanup_all: the next listed match of the next guild with a non-empty
\* record is torn down; an exception leaves the pass and stop()
CleanupAllStep ==
    /\ stopper.at = "cleanup"
    /\ NextListedGuild(stopper.gi) # 0
    /\ LET i == NextListedGuild(stopper.gi)
           g == GuildList[i]
           mid == CHOOSE m \in Listed(g) : \A o \in Listed(g) : FirstId(g, m) <= FirstId(g, o)
       IN \E e \in {NoFault} \cup
                   (IF faults > 0
                    THEN {[NoFault EXCEPT !.persistFail = TRUE], [NoFault EXCEPT !.delFailAt = 1]}
                    ELSE {}) :
            \E r \in {CleanupMatchVoice(g, mid, e)} :
            /\ r.used = Chosen(e)
            /\ faults' = faults - r.used
            /\ active_voice' = r.av
            /\ active_matches' = r.am
            /\ channels' = r.ch
            /\ voice' = r.vo
            /\ report' = [NoReport EXCEPT
                            !.action = "cleanup", !.g = g, !.m = mid,
                            !.op = r.op, !.outcome = r.outcome,
                            !.delete_attempts = r.delete_attempts,
                            !.delete_failed = r.delete_failed, !.moved = r.moved]
            /\ hist' = [Record(hist, report') EXCEPT
                           !.listed = Range(active_matches[g][mid].channels),
                           !.held = Range(active_voice[g][mid].channels),
                           !.before = DOMAIN channels]
            /\ stopper' = IF r.raised THEN [stopper EXCEPT !.at = "failed"]
                          ELSE [stopper EXCEPT !.gi = i]
    /\ UNCHANGED << remote_t, remote_m, budget, state_cache, t_state_cache, nextChannelId,
                    pc, gi, ti, mi, tdata, live, observed_t, events, failed_creation >>
    /\ UNCHANGED << envVars, sideVars, authVars, running, task, job >>

\* _cleanup_all returns: no guild with a listed match is left
CleanupAllDone ==
    /\ stopper.at = "cleanup"
    /\ NextListedGuild(stopper.gi) = 0
    /\ stopper' = [stopper EXCEPT !.at = "done"]
    /\ hist' = [hist EXCEPT !.recovered = TRUE, !.again = -1, !.listed = {}, !.held = {}, !.before = {}]
    /\ report' = [NoReport EXCEPT !.action = "cleanup_done"]
    /\ UNCHANGED << remote_t, remote_m, budget, faults, voice, state_cache, t_state_cache,
                    active_voice, active_matches, channels, nextChannelId, pc, gi, ti, mi,
                    tdata, live, observed_t, events, failed_creation >>
    /\ UNCHANGED << envVars, sideVars, authVars, running, task, job >>

\* the process is killed, wherever the poll task or stop() stands
Crash ==
    /\ stopper.at \notin {"done", "failed", "down"}
    /\ task \in {"alive", "ended", "none"}
    /\ hist.restarts < MaxRestarts
    /\ \E cut \in (IF task = "alive" THEN CutsNow ELSE {[mode |-> "none", k |-> 0]}) :
          /\ LeftBehind(InterruptedNow(cut), "crash")
          /\ hist' = [Record(hist, report') EXCEPT !.torn = {}, !.again = -1]
    /\ Forgotten
    /\ AtRest
    /\ running' = FALSE
    /\ task' = "none"
    /\ job' = NoJob
    /\ stopper' = [NoStop EXCEPT !.at = "down"]
    /\ UNCHANGED << remote_t, remote_m, budget, faults, observed_t, events, live,
                    failed_creation >>
    /\ UNCHANGED << envVars, storeVars, cadenceVars, logVars, startVars, authVars >>
    /\ handled' = NoneHandled

\* CMLink.__init__ and start(), lines 125-130, in a new process: nothing in
\* memory, the persisted records as they were left
Start ==
    /\ stopper.at \in {"done", "failed", "down"}
    /\ task = "none"
    /\ hist.restarts < MaxRestarts
    /\ Forgotten
    /\ AtRest
    /\ running' = TRUE
    /\ task' = "alive"
    /\ job' = NoJob
    /\ stopper' = NoStop
    /\ hist' = [hist EXCEPT !.restarts = @ + 1, !.recovered = FALSE, !.torn = {},
                            !.again = -1, !.listed = {}, !.held = {}, !.before = {}]
    /\ report' = [NoReport EXCEPT !.action = "start"]
    /\ UNCHANGED << remote_t, remote_m, budget, faults, voice, active_matches, channels,
                    nextChannelId, live, observed_t, events, failed_creation >>
    /\ UNCHANGED << envVars, storeVars, cadenceVars, logVars, startVars, authVars >>
    /\ handled' = NoneHandled

NextLifecycle ==
    \/ LifeRemote \/ LifeTick \/ LifeFetch \/ LifeMatch
    \/ ReminderPending \/ ReminderDelivered \/ LoopExit
    \/ Stop \/ StopWaitDone \/ StopTimeout
    \/ CleanupAllStep \/ CleanupAllDone
    \/ Crash \/ Start

SpecLifecycle == InitLifecycle /\ [][NextLifecycle]_vars

\* ------------------------------------------------ the Link Store at run time

restVars == << otherVars, envVars, authVars, lifeVars, cadenceVars, logVars, seenVars,
              startVars >>

\* what the store can hold before the cog touches it
InitialContents ==
    { Missing, Unreadable, Corrupt, RootList, LinksList, LinksNull,
      Object(EmptyLinks), Object([EmptyLinks EXCEPT !["c"] = "z"]),
      Object([EmptyLinks EXCEPT !["c"] = "bad"]) }

\* two callers about to save, through one Storage object or through two
InitStorage ==
    /\ InitQuiet
    /\ faults = 0
    /\ InitAuth(TRUE, TRUE)
    /\ InitStarted
    /\ \E c \in InitialContents :
         /\ disk = DiskWith(c)
         /\ sop = [NoSop EXCEPT !.first = c]
    /\ \E o \in StorageObjects :
         savers = [s \in Savers |->
                     [NoSaver EXCEPT !.obj = IF s = "s1" THEN "o1" ELSE o]]
    /\ locks = [o \in StorageObjects |-> None]
    /\ handled = NoneHandled
    /\ mon = NoMon
    /\ poll_interval = DefaultPollInterval
    /\ interval = Unbound
    /\ delay = NoDelay
    /\ last_js = [kind |-> "none", errors |-> << >>]
    /\ debug_log = FALSE

\* Storage.__init__: a missing file is written in place, without a sync
StorageInit(s) ==
    /\ savers[s].pc = "new"
    /\ savers' = [savers EXCEPT ![s].pc = "idle"]
    /\ disk' = IF disk.file = 0
               THEN [disk EXCEPT
                       !.inodes = Append(@, Inode(Object(EmptyLinks), FALSE)),
                       !.file = Len(disk.inodes) + 1]
               ELSE disk
    /\ sop' = [sop EXCEPT !.op = "init", !.who = s]
    /\ UNCHANGED << locks, restVars >>

\* save_link up to the call of _write: _read under the lock, then the entry
\* is set in memory; an exception ends the call
SaveRead(s) ==
    /\ savers[s].pc = "idle"
    /\ locks[savers[s].obj] = None
    /\ LET set == SetLink(StorageRead(disk), SaveKey(s), SaveValue(s))
       IN  /\ savers' = [savers EXCEPT
                           ![s].pc = IF set.ok THEN "write" ELSE "done",
                           ![s].data = set.data]
           /\ sop' = [sop EXCEPT
                        !.op = "read", !.who = s,
                        !.intended = IF set.ok THEN @ \cup {set.data} ELSE @,
                        !.overlap = @ \/ \E o \in Savers \ {s} :
                                            savers[o].pc \in InsideSave]
    /\ UNCHANGED << disk, locks, restVars >>

\* a _write that opens the backing file itself instead of a temp file
SaveOpen_InPlace(s) ==
    /\ savers[s].pc = "write"
    /\ locks[savers[s].obj] = None
    /\ locks' = [locks EXCEPT ![savers[s].obj] = s]
    /\ LET fd == IF disk.file = 0 THEN Len(disk.inodes) + 1 ELSE disk.file
       IN  /\ disk' = IF disk.file = 0
                      THEN [disk EXCEPT !.inodes = Append(@, Inode(Truncated, FALSE)),
                                        !.file = fd]
                      ELSE [disk EXCEPT !.inodes[fd] = Inode(Truncated, FALSE)]
           /\ savers' = [savers EXCEPT ![s].pc = "dump", ![s].fd = fd]
    /\ sop' = [sop EXCEPT !.op = "open", !.who = s]
    /\ UNCHANGED restVars

\* _write: the lock is taken and the temp file opened with "w", which
\* creates it or truncates the one that is there
SaveOpen(s) ==
    /\ savers[s].pc = "write"
    /\ locks[savers[s].obj] = None
    /\ locks' = [locks EXCEPT ![savers[s].obj] = s]
    /\ LET fd == IF disk.tmp = 0 THEN Len(disk.inodes) + 1 ELSE disk.tmp
       IN  /\ disk' = IF disk.tmp = 0
                      THEN [disk EXCEPT !.inodes = Append(@, Inode(Truncated, FALSE)),
                                        !.tmp = fd]
                      ELSE [disk EXCEPT !.inodes[fd] = Inode(Truncated, FALSE)]
           /\ savers' = [savers EXCEPT ![s].pc = "dump", ![s].fd = fd]
    /\ sop' = [sop EXCEPT !.op = "open", !.who = s]
    /\ UNCHANGED restVars

\* json.dump and flush: the bytes go to the open file from offset 0; over
\* bytes another writer put there since the truncation they leave that
\* writer's tail or not, depending on the lengths.  A failed write ends the
\* call: the temp file is removed, the lock released
SaveDump(s, ok) ==
    /\ savers[s].pc = "dump"
    /\ LET fd == savers[s].fd
           was == disk.inodes[fd].content
       IN  IF ok
           THEN /\ \E c \in IF was = Truncated
                            THEN {savers[s].data}
                            ELSE {savers[s].data, Corrupt} :
                      disk' = [disk EXCEPT !.inodes[fd] = Inode(c, FALSE)]
                /\ savers' = [savers EXCEPT ![s].pc = "sync"]
                /\ locks' = locks
           ELSE /\ disk' = [disk EXCEPT !.inodes[fd] = Inode(Corrupt, FALSE),
                                        !.tmp = 0]
                /\ savers' = [savers EXCEPT ![s].pc = "done"]
                /\ locks' = [locks EXCEPT ![savers[s].obj] = None]
    /\ sop' = [sop EXCEPT !.op = "dump", !.who = s]
    /\ UNCHANGED restVars

\* os.fsync, whose failure is ignored
SaveSync(s, ok) ==
    /\ savers[s].pc = "sync"
    /\ disk' = IF ok THEN [disk EXCEPT !.inodes[savers[s].fd].synced = TRUE] ELSE disk
    /\ savers' = [savers EXCEPT ![s].pc = "replace"]
    /\ sop' = [sop EXCEPT !.op = "sync", !.who = s, !.sync_failed = @ \/ ~ok]
    /\ UNCHANGED << locks, restVars >>

\* os.replace(tmp, path); it raises when the temp name is gone, which is
\* caught and logged
SaveReplace(s) ==
    /\ savers[s].pc = "replace"
    /\ disk' = IF disk.tmp = 0 THEN disk
               ELSE [disk EXCEPT !.file = disk.tmp, !.tmp = 0]
    /\ savers' = [savers EXCEPT ![s].pc = "unlock", ![s].saved = disk.tmp # 0]
    /\ sop' = [sop EXCEPT !.op = "replace", !.who = s]
    /\ UNCHANGED << locks, restVars >>

\* the with-block ends, _write and save_link return
SaveReturn(s) ==
    /\ savers[s].pc = "unlock"
    /\ locks' = [locks EXCEPT ![savers[s].obj] = None]
    /\ savers' = [savers EXCEPT ![s].pc = "done"]
    /\ sop' = [sop EXCEPT !.op = "return", !.who = s]
    /\ UNCHANGED << disk, restVars >>

\* the process dies during a save, alone or with the machine; with the
\* machine, bytes that were never synced may be lost
StoreCrash(power) ==
    /\ \E s \in Savers : savers[s].pc \in InsideSave
    /\ savers' = [s \in Savers |-> [savers[s] EXCEPT !.pc = "dead"]]
    /\ locks' = [o \in StorageObjects |-> None]
    /\ \E lost \in SUBSET {i \in 1..Len(disk.inodes) : ~disk.inodes[i].synced} :
         /\ ~power => lost = {}
         /\ disk' = [disk EXCEPT !.inodes =
                       [i \in 1..Len(disk.inodes) |->
                          IF i \in lost THEN Inode(Corrupt, FALSE) ELSE disk.inodes[i]]]
    /\ sop' = [sop EXCEPT !.op = "crash", !.who = None, !.power = power]
    /\ UNCHANGED restVars

\* a caller looks one user up
Lookup(u) ==
    /\ LET r == GetDiscordId(disk, u)
       IN  sop' = [sop EXCEPT !.op = "lookup", !.who = None, !.key = u,
                              !.seen = ContentOf(disk, disk.file).kind,
                              !.raised = r.raised, !.value = r.value,
                              !.shape = "none", !.mapping = EmptyLinks]
    /\ UNCHANGED << disk, savers, locks, restVars >>

\* a caller asks for every link
ListLinks ==
    /\ LET r == AllLinks(disk)
       IN  sop' = [sop EXCEPT !.op = "all_links", !.who = None, !.key = None,
                              !.seen = ContentOf(disk, disk.file).kind,
                              !.raised = r.raised, !.value = NoLink,
                              !.shape = r.shape, !.mapping = r.mapping]
    /\ UNCHANGED << disk, savers, locks, restVars >>

NextStorage ==
    \/ \E s \in Savers : StorageInit(s)
    \/ \E s \in Savers : SaveRead(s)
    \/ \E s \in Savers : SaveOpen(s)
    \/ \E s \in Savers, ok \in BOOLEAN : SaveDump(s, ok)
    \/ \E s \in Savers, ok \in BOOLEAN : SaveSync(s, ok)
    \/ \E s \in Savers : SaveReplace(s)
    \/ \E s \in Savers : SaveReturn(s)
    \/ \E power \in BOOLEAN : StoreCrash(power)
    \/ \E u \in LinkKeys : Lookup(u)
    \/ ListLinks

SpecStorage == InitStorage /\ [][NextStorage]_vars

\* ----------------------------------------------------------- sweep cadence
\* integers an owner may pass to `setinterval`, from -1 up
MaxPollInterval == 5
\* line 153: max(2, ...) and the 5 used for a value that is no int
SleepFloor == 2
SleepFallback == 5

\* what the Poll_Interval setting can hold: an int (setinterval), and what an
\* edited or foreign settings store can hold: a bool, a float, a string, null
IntervalInts == (0 - 1)..MaxPollInterval
IntervalValues ==
    [kind : {"int"}, v : IntervalInts] \cup [kind : {"bool"}, v : {0, 1}]
    \cup {[kind |-> "float", v |-> 3], [kind |-> "str", v |-> 0], [kind |-> "none", v |-> 0]}

Maximum(a, b) == IF a >= b THEN a ELSE b

\* a delay without the floor of two seconds
SleepDelay_NoFloor(i) ==
    IF i.kind \in {"int", "bool"} THEN i.v ELSE SleepFallback

\* line 153: max(2, int(interval) if isinstance(interval, int) else 5); a
\* bool is an int to isinstance
SleepDelay(i) ==
    Maximum(SleepFloor, IF i.kind \in {"int", "bool"} THEN i.v ELSE SleepFallback)

cadenceFrame == << remote_t, remote_m, budget, faults, voice, state_cache,
                   t_state_cache, active_voice, active_matches, channels,
                   nextChannelId, tdata, live, observed_t, events, failed_creation,
                   envVars, authVars, storeVars, logVars, seenVars, startVars, running,
                   job, stopper, hist >>

InitCadence ==
    /\ InitQuiet
    /\ faults = 0
    /\ InitAuth(TRUE, TRUE)
    /\ InitStarted
    /\ InitSide

\* CMLink.set_interval: the int is stored as it is
SetInterval(v) ==
    /\ poll_interval' = IntValue(v)
    /\ report' = NoReport
    /\ UNCHANGED << pc, gi, ti, mi, task, interval, delay, cadenceFrame >>

\* the setting is changed behind the cog's back
ConfigEdited(i) ==
    /\ i.kind # "int"
    /\ poll_interval' = i
    /\ report' = NoReport
    /\ UNCHANGED << pc, gi, ti, mi, task, interval, delay, cadenceFrame >>

\* _loop, lines 146-153, up to the start of the sweep: the setting is read
\* into `interval` and _tick_all_guilds called.  A read that raises skips the
\* sweep and leaves `interval` as it was: line 153 then sleeps on the value of
\* an earlier iteration, or raises NameError when there was none, which ends
\* the task
LoopStart(read_ok) ==
    /\ task = "alive"
    /\ pc = "sleep"
    /\ delay.state # "pending"
    /\ IF read_ok
       THEN /\ interval' = poll_interval
            /\ delay' = [state |-> "pending", secs |-> 0, configured |-> poll_interval,
                         read_ok |-> TRUE]
            /\ pc' = "fetch" /\ gi' = 1 /\ ti' = 1 /\ mi' = 1
            /\ report' = [NoReport EXCEPT !.action = "tick"]
            /\ task' = task
       ELSE /\ interval' = interval
            /\ delay' = IF interval = Unbound
                        THEN [state |-> "none", secs |-> 0, configured |-> poll_interval,
                              read_ok |-> FALSE]
                        ELSE [state |-> "slept", secs |-> SleepDelay(interval),
                              configured |-> poll_interval, read_ok |-> FALSE]
            /\ task' = IF interval = Unbound THEN "failed" ELSE task
            /\ report' = NoReport
            /\ UNCHANGED << pc, gi, ti, mi >>
    /\ UNCHANGED << poll_interval, cadenceFrame >>

\* the sweep's steps, as in the poll loop; the service lists no match here,
\* so they are the fetches of the tournaments
CadenceSweep ==
    /\ task = "alive"
    /\ ProcessTournament

\* line 153 after a sweep: the sleep
LoopSleep ==
    /\ task = "alive"
    /\ pc = "sleep"
    /\ delay.state = "pending"
    /\ delay' = [delay EXCEPT !.state = "slept", !.secs = SleepDelay(interval)]
    /\ report' = NoReport
    /\ UNCHANGED << pc, gi, ti, mi, task, poll_interval, interval, cadenceFrame >>

NextCadence ==
    \/ \E v \in IntervalInts : SetInterval(v)
    \/ \E i \in IntervalValues : ConfigEdited(i)
    \/ \E read_ok \in BOOLEAN : LoopStart(read_ok)
    \/ CadenceSweep
    \/ LoopSleep

SpecCadence == InitCadence /\ [][NextCadence]_vars

\* ---------------------------------------------------------- the request log

\* a requester that answers a body it has already logged with no payload
GraphqlRawLogged_SkipsDuplicate(cfg, now, n, x1, r1, clear_ok, x2, r2, debug, last) ==
    LET q == GraphqlRaw(cfg, now, n, x1, r1, clear_ok, x2, r2)
        logged == debug /\ q.calls >= 1 /\ r1 # NoResponse
    IN  [ result |-> IF logged /\ r1.body = last THEN [q EXCEPT !.payload = NoBody] ELSE q,
          last |-> IF logged THEN r1.body ELSE last,
          pushed |-> IF ~logged THEN "none"
                     ELSE IF r1.body # last THEN "full" ELSE "duplicate" ]

\* _graphql_raw with its diagnostics, lines 733-771: when Debug_API_Logging
\* is on, the body of the first response is compared with the last one
\* logged for the operation; a different body is pushed in full and
\* remembered, an equal one is pushed as a short note.  The retry's response
\* is not logged
GraphqlRawLogged(cfg, now, n, x1, r1, clear_ok, x2, r2, debug, last) ==
    LET q == GraphqlRaw(cfg, now, n, x1, r1, clear_ok, x2, r2)
        logged == debug /\ q.calls >= 1 /\ r1 # NoResponse
    IN  [ result |-> q,
          last |-> IF logged THEN r1.body ELSE last,
          pushed |-> IF ~logged THEN "none"
                     ELSE IF r1.body # last THEN "full" ELSE "duplicate" ]

\* what a call returns and sends
Outcome(q) ==
    [payload |-> q.payload, status |-> q.status, calls |-> q.calls,
     exchanges |-> q.exchanges]

logFrame == << clock, otherVars, envVars, lifeVars, storeVars, cadenceVars, seenVars,
               startVars >>

InitLog ==
    /\ InitQuiet
    /\ faults = 0
    /\ InitAuth(TRUE, TRUE)
    /\ InitStarted
    /\ InitSide

\* CMLink.setapilogging
SetApiLogging(b) ==
    /\ debug_log' = b
    /\ api' = NoApi
    /\ UNCHANGED << config, issued, last_js, logFrame >>

\* one call of _graphql_raw for one operation
RequestLogged ==
    /\ \E x1 \in IF CachedValid(config, clock) THEN {Unasked} ELSE ExchangeOutcomes,
          r1 \in Responses :
       LET renew == r1.status = "200" /\ r1.body.kind = "json" /\ r1.body.errors # << >> IN
       \E clear_ok \in IF renew THEN BOOLEAN ELSE {TRUE},
          x2 \in IF renew THEN RenewalOutcomes ELSE {Unasked},
          r2 \in IF renew THEN RetryResponses ELSE {NoResponse} :
         \E l \in {GraphqlRawLogged(config, clock, issued, x1, r1, clear_ok, x2, r2,
                                     debug_log, last_js)},
            f \in {GraphqlRawLogged(config, clock, issued, x1, r1, clear_ok, x2, r2,
                                     debug_log, NoBody)} :
         LET q == l.result IN
         /\ (q.exchanges - q.reexchanges = 0 => x1 = Unasked)
         /\ (q.calls = 0 => r1 = NoResponse)
         /\ (q.reexchanges = 0 => x2 = Unasked)
         /\ (q.calls < 2 => r2 = NoResponse /\ (q.reexchanges = 0 => clear_ok))
         /\ q.issued <= MaxTokens
         /\ config' = q.config
         /\ issued' = q.issued
         /\ last_js' = l.last
         /\ api' = [NoApi EXCEPT !.op = "request", !.before = config, !.at = clock,
                                 !.returned = q.returned, !.exchanges = q.exchanges,
                                 !.reexchanges = q.reexchanges, !.calls = q.calls,
                                 !.first = IF q.calls >= 1 THEN r1 ELSE NoResponse,
                                 !.second = IF q.calls = 2 THEN r2 ELSE NoResponse,
                                 !.cleared = q.cleared,
                                 !.payload = q.payload, !.status = q.status,
                                 !.pushed = l.pushed, !.fresh = Outcome(f.result)]
    /\ UNCHANGED << debug_log, logFrame >>

NextLog == (\E b \in BOOLEAN : SetApiLogging(b)) \/ RequestLogged

SpecLog == InitLog /\ [][NextLog]_vars

\* ------------------------------------------------ states seen more than once
\* Tournament t1 only: match m1 goes back and forth between states and may
\* drop out of the snapshot, match m2 shows up WAITING; the sweeps are those
\* of the poll loop.
MaxRevisitChanges == 3

MaxRevisitFaults == 2

RevisitTournament == "t1"
RevisitMatch == "m1"
RevisitStates == MatchStates \cup {Absent}
OtherMatch == "m2"

InitRevisit ==
    /\ remote_t = [t \in TournamentIds |-> "WAITING"]
    /\ remote_m = [m \in MatchIds |-> Absent]
    /\ budget = MaxRevisitChanges
    /\ faults = MaxRevisitFaults
    /\ \E status \in MainStatuses, b \in BOOLEAN : InitEnv(status, b, b)
    /\ logging = FALSE
    /\ InitMonitor
    /\ InitAuth(TRUE, TRUE)
    /\ InitStarted
    /\ InitSide

\* the remote service moves m1 to another state, or lists m2 as WAITING
RevisitAdvance ==
    /\ pc = "sleep"
    /\ budget > 0
    /\ budget' = budget - 1
    /\ \/ \E s \in RevisitStates :
            /\ s # remote_m[RevisitMatch]
            /\ remote_m' = [remote_m EXCEPT ![RevisitMatch] = s]
       \/ /\ remote_m[OtherMatch] = Absent
          /\ remote_m' = [remote_m EXCEPT ![OtherMatch] = "WAITING"]
    /\ report' = NoReport
    /\ UNCHANGED << remote_t, faults, voice, state_cache, t_state_cache, active_voice,
                    active_matches, channels, nextChannelId, pc, gi, ti, mi, tdata,
                    live, observed_t, events >>
    /\ UNCHANGED << envVars, storeVars, cadenceVars, logVars, startVars >>
    /\ UNCHANGED << failed_creation, authVars, lifeVars >>
    /\ handled' = Seen(remote_m')

NextRevisit == RevisitAdvance \/ TickAllGuilds \/ ProcessTournament \/ ProcessMatch

SpecRevisit == InitRevisit /\ [][NextRevisit]_vars

\* ------------------------------------------------- start() and stop() calls
\* start() calls of each command handler in one behaviour
MaxStartCalls == 2

\* a start() that creates a session and a task whatever _task holds
StartReturnsEarly_Never(m) == FALSE

\* lines 126-127: `if self._task: return`
StartReturnsEarly(m) == m.task # 0

\* TournamentMonitor.start, lines 125-130; it awaits nothing, so no other
\* coroutine runs between its first and its last line
MonitorStart(m) ==
    IF StartReturnsEarly(m)
    THEN [m EXCEPT !.last = [called |-> TRUE, had_task |-> m.task # 0,
                             new_task |-> 0, new_session |-> 0]]
    ELSE [m EXCEPT !.session = m.sessions_made + 1,
                   !.open = @ \cup {m.sessions_made + 1},
                   !.sessions_made = @ + 1,
                   !.running = TRUE,
                   !.task = m.tasks_made + 1,
                   !.loops = @ \cup {m.tasks_made + 1},
                   !.tasks_made = @ + 1,
                   !.last = [called |-> TRUE, had_task |-> m.task # 0,
                             new_task |-> m.tasks_made + 1,
                             new_session |-> m.sessions_made + 1]]

startFrame == << otherVars, envVars, authVars, lifeVars, storeVars, cadenceVars, logVars,
                 seenVars >>

\* the cog constructed, the start() it scheduled not yet run
InitStart ==
    /\ InitQuiet
    /\ faults = 0
    /\ InitAuth(TRUE, TRUE)
    /\ running = FALSE /\ task = "none" /\ job = NoJob /\ stopper = NoStop /\ hist = NoHist
    /\ InitSide

\* CMLink.__init__, line 45: the scheduled start() runs
ScheduledStart ==
    /\ mon.calls["init"] = 0
    /\ mon' = [MonitorStart(mon) EXCEPT !.calls["init"] = 1]
    /\ UNCHANGED startFrame

\* lines 116-118 and 163-165: a command handler starts the monitor when it
\* has no session
CommandStart(c) ==
    /\ c \in StartCallers \ {"init"}
    /\ mon.calls[c] < MaxStartCalls
    /\ mon' = IF mon.session = 0
              THEN [MonitorStart(mon) EXCEPT !.calls[c] = @ + 1]
              ELSE [mon EXCEPT !.calls[c] = @ + 1, !.last.called = FALSE]
    /\ UNCHANGED startFrame

\* _loop, line 146: a poll task finds _running clear and ends
PollTaskEnds ==
    /\ ~mon.running
    /\ \E t \in mon.loops : mon' = [mon EXCEPT !.loops = @ \ {t}, !.last.called = FALSE]
    /\ UNCHANGED startFrame

\* stop(), lines 139-141, reached without awaiting anything in between:
\* _task is dropped and the session, if open, starts closing
StopUnsets(m) ==
    [m EXCEPT !.task = 0,
              !.stop = IF m.session \in m.open THEN "closing" ELSE "cleanup",
              !.closing = m.session]

\* cog_unload (line 393) and stop(), lines 133-136: _running is cleared and
\* the task, if any, is waited for
StopCalled ==
    /\ mon.stop = "idle"
    /\ LET m == [mon EXCEPT !.running = FALSE, !.last.called = FALSE] IN
       mon' = IF mon.task # 0
              THEN [m EXCEPT !.stop = "waiting", !.awaited = mon.task]
              ELSE StopUnsets(m)
    /\ UNCHANGED startFrame

\* lines 136-139: the awaited task has ended, or the wait times out and the
\* task is cancelled; stop() goes on
StopWaited ==
    /\ mon.stop = "waiting"
    /\ mon' = StopUnsets([mon EXCEPT !.loops = @ \ {mon.awaited}, !.last.called = FALSE])
    /\ UNCHANGED startFrame

\* line 141: the session is closed
StopClosed ==
    /\ mon.stop = "closing"
    /\ mon' = [mon EXCEPT !.open = @ \ {mon.closing}, !.stop = "cleanup",
                          !.last.called = FALSE]
    /\ UNCHANGED startFrame

\* line 143: _cleanup_all has run and stop() returns
StopReturns ==
    /\ mon.stop = "cleanup"
    /\ mon' = [mon EXCEPT !.stop = "done", !.last.called = FALSE]
    /\ UNCHANGED startFrame

NextStart ==
    \/ ScheduledStart
    \/ \E c \in StartCallers \ {"init"} : CommandStart(c)
    \/ PollTaskEnds
    \/ StopCalled \/ StopWaited \/ StopClosed \/ StopReturns

SpecStart == InitStart /\ [][NextStart]_vars

\* ------------------------------------------------------------------ claims

\* C1 -- with update channel and lobby configured and the participants
\* linked, the lockstep scenario WAITING, RUNNING, COMPLETED produces exactly
\* tournament-started, match-waiting, channels-created, channels-torn-down,
\* tournament-concluded, in this order, and leaves the match in neither
\* active-channel record.
C1_ScenarioSequence ==
    \A g \in ScenarioGuilds :
        ( /\ ScenarioDone
          /\ update_channel[g] /\ lobby_vc[g]
          /\ \A u \in ParticipantsOf(ScenarioMatch) : IsLinkedMember(g, u) )
        => /\ ScenarioEvents(events, g) =
                << <<"tournament_started", g, ScenarioTournament>>,
                   <<"match_waiting", g, ScenarioMatch>>,
                   <<"channels_created", g, ScenarioMatch>>,
                   <<"channels_torn_down", g, ScenarioMatch>>,
                   <<"tournament_concluded", g, ScenarioTournament>> >>
           /\ ~active_voice[g][ScenarioMatch].present
           /\ ~active_matches[g][ScenarioMatch].present

Count(evs, e) == Cardinality({i \in 1..Len(evs) : evs[i] = e})

\* C2 -- a poll that observes a tournament state different from the one the
\* previous poll observed sends the announcement of the new state (RUNNING:
\* started, COMPLETED: concluded) exactly once; a poll that observes the same
\* state again sends none.
C2_TournamentAnnouncedOnce ==
    ( /\ report.action = "fetch" /\ report.outcome = "ok"
      /\ update_channel[report.g]
      /\ report.prev_observed # None )
    => LET started == Count(report.events, <<"tournament_started", report.g, report.t>>)
           concluded == Count(report.events, <<"tournament_concluded", report.g, report.t>>)
       IN IF report.observed # report.prev_observed
          THEN /\ report.observed = "RUNNING" => started = 1
               /\ report.observed = "COMPLETED" => concluded = 1
          ELSE started = 0 /\ concluded = 0

\* C3 -- once a valid snapshot of a tournament has been processed, the state
\* cache of (guild, tournament) maps every match id of the snapshot to the
\* state observed in it.
C3_CacheHoldsSnapshot ==
    report.finished =>
        \A m \in MatchIds :
            report.snapshot[m] # Absent
            => state_cache[report.g][report.t][m] = report.snapshot[m]

\* C4 -- in a poll of a tournament the transition handler is invoked for
\* exactly the matches of the snapshot whose observed state differs from the
\* cached one (no cache entry counts as differing).
C4_HandlerIffChanged ==
    report.finished => report.invoked = report.changed

\* the resolved members of lineup i of match m in guild g
ResolvedOfLineup(g, m, i) ==
    {links[u] : u \in {x \in Range(LineupsOf(m)[i].members) : IsLinkedMember(g, x)}}

NonEmptyLineups(g, m) == {i \in 1..Len(LineupsOf(m)) : ResolvedOfLineup(g, m, i) # {}}

LargestLineup(g, m) ==
    IF NonEmptyLineups(g, m) = {} THEN 0
    ELSE CHOOSE n \in 0..Cardinality(RemoteUsers) :
           /\ \E i \in NonEmptyLineups(g, m) : Cardinality(ResolvedOfLineup(g, m, i)) = n
           /\ \A i \in NonEmptyLineups(g, m) : Cardinality(ResolvedOfLineup(g, m, i)) <= n

\* C5 -- a successful creation for a match entering RUNNING creates one
\* channel when the largest resolved lineup has at most one member, and
\* otherwise one channel per lineup with at least one resolved member.
C5_ChannelCount ==
    (report.op = "create" /\ report.outcome = "ok")
    => Cardinality(report.created) =
         IF LargestLineup(report.g, report.m) <= 1 THEN 1
         ELSE Cardinality(NonEmptyLineups(report.g, report.m))

C5_Witness ==
    /\ report.op = "create" /\ report.outcome = "ok"
    /\ LargestLineup(report.g, report.m) > 1
    /\ Cardinality(report.created) = 2

\* C6 -- every channel denies view and connect to the default role; it grants
\* access only to linked guild members among the match's participants, in
\* per-team mode only to those of its own lineup; a participant without a link
\* or outside the guild gets no grant and is not moved.
C6_AccessPolicy ==
    /\ \A c \in DOMAIN channels :
         LET g == channels[c].guild
             m == channels[c].match
         IN /\ {"view_channel", "connect"} \subseteq channels[c].default_deny
            /\ channels[c].allow \subseteq
                 {links[u] : u \in {x \in ParticipantsOf(m) : IsLinkedMember(g, x)}}
            /\ channels[c].name[2] # 0 =>
                 \E i \in 1..Len(LineupsOf(m)) :
                    /\ LineupsOf(m)[i].number + 1 = channels[c].name[2]
                    /\ channels[c].allow \subseteq ResolvedOfLineup(g, m, i)
            /\ \A u \in ParticipantsOf(m) :
                 ~IsLinkedMember(g, u) => Owner(u) \notin channels[c].allow
    /\ report.op = "create" =>
         \A u \in ParticipantsOf(report.m) :
            ~IsLinkedMember(report.g, u) => Owner(u) \notin report.moved

C6_Witness ==
    \E c \in DOMAIN channels :
        /\ channels[c].name[2] # 0
        /\ channels[c].allow # {}
        /\ \E u \in ParticipantsOf(channels[c].match) :
              /\ ~IsLinkedMember(channels[c].guild, u)
              /\ links[u] # None

\* C7 (as stated) -- after a creation that failed with k >= 1 channels
\* created, none of those channels exists any more.
C7_NoChannelSurvivesRollback ==
    (report.op = "create" /\ report.outcome = "failed" /\ report.created # {})
    => report.created \cap DOMAIN channels = {}

\* C7 (amended) -- after a creation that failed with k >= 1 channels created,
\* the deletion of each of those channels has been attempted exactly once, and
\* the channels of the attempt that still exist are exactly those whose
\* deletion failed.
C7_RollbackAttemptsEach ==
    (report.op = "create" /\ report.outcome = "failed" /\ report.created # {})
    => /\ Range(report.delete_attempts) = report.created
       /\ Len(report.delete_attempts) = Cardinality(report.created)
       /\ report.created \cap DOMAIN channels = report.delete_failed

C7_Witness ==
    /\ report.op = "create" /\ report.outcome = "failed"
    /\ Cardinality(report.created) = 2
    /\ report.delete_failed # {}

\* C8 -- a key (guild, match) is in the in-memory active set exactly when
\* channels were created successfully for the match and not torn down since.
C8_KeyIffLive ==
    \A g \in Guilds, m \in MatchIds : active_voice[g][m].present <=> live[g][m]

\* C9 -- when a creation or teardown for a match has returned, the in-memory
\* active set and the persisted record hold the same entry for the match.
C9_MemoryEqualsPersisted ==
    (report.op \in {"create", "teardown"} /\ report.outcome \in {"ok", "failed", "skipped"})
    => active_voice[report.g][report.m] = active_matches[report.g][report.m]

\* C10 -- after a completed teardown the match is in neither the in-memory
\* active set nor the persisted record, also when a move or a deletion
\* failed; each channel's deletion was attempted at most once, and a channel
\* whose deletion failed is listed in no record, so no later teardown retries it.
C10_TeardownClearsRecords ==
    (report.op = "teardown" /\ report.outcome = "ok")
    => /\ ~active_voice[report.g][report.m].present
       /\ ~active_matches[report.g][report.m].present
       /\ Cardinality(Range(report.delete_attempts)) = Len(report.delete_attempts)
       /\ \A c \in report.delete_failed, m \in MatchIds :
             /\ c \notin Range(active_voice[report.g][m].channels)
             /\ c \notin Range(active_matches[report.g][m].channels)

C10_Witness ==
    /\ report.op = "teardown" /\ report.outcome = "ok"
    /\ report.delete_failed # {}
    /\ report.delete_failed \subseteq DOMAIN channels

\* the position of tournament t in the list guild g follows
TournamentIndex(g, t) == CHOOSE i \in 1..Len(TournamentsOf(g)) : TournamentsOf(g)[i] = t

\* the tournament a match series belongs to
TournamentOf(m) == CHOOSE t \in TournamentIds : m \in Range(MatchesOf(t))

\* C17 -- when handling a match of tournament t of guild g has raised, the
\* sweep goes on with the next tournament of g when there is one, and
\* otherwise with the next guild: the failure costs no other tournament and
\* no other guild its poll in this sweep.
C17_FailureIsolated ==
    report.aborted =>
        LET i == TournamentIndex(report.g, report.t) IN
        IF i < Len(TournamentsOf(report.g))
        THEN pc = "fetch" /\ GuildList[gi] = report.g /\ ti = i + 1
        ELSE IF GuildIndex(report.g) < Len(GuildList)
             THEN pc = "fetch" /\ gi = GuildIndex(report.g) + 1 /\ ti = 1
             ELSE pc = "sleep"

\* C18 -- when the creation for a match entering RUNNING has failed, then
\* after the sweep, while the service still reports RUNNING, no channel exists
\* for the match and the state cache records the match as RUNNING (so later
\* polls of RUNNING find no change and do not try again).
C18_FailedCreationDegrades ==
    \A g \in Guilds, m \in MatchIds :
        (pc = "sleep" /\ failed_creation[g][m] /\ remote_m[m] = "RUNNING")
        => /\ ~\E c \in DOMAIN channels : channels[c].guild = g /\ channels[c].match = m
           /\ state_cache[g][TournamentOf(m)][m] = "RUNNING"

\* the cached token the call started from had more than the margin left
ValidBefore ==
    /\ api.before.API_Access_Token # NoToken
    /\ api.before.API_Access_Expires_At - api.at > SafetyMargin

ConfiguredBefore == api.before.API_Refresh_Token /\ api.before.API_Token_URL

\* C15 (as stated) -- a call of the token manager that finds a cached token
\* with more than 60 s left returns it without an exchange; every other call
\* makes exactly one exchange call.
C15_ReuseOrOneExchange ==
    api.op = "ensure" =>
        IF ValidBefore
        THEN api.returned = api.before.API_Access_Token /\ api.exchanges = 0
        ELSE api.exchanges = 1

\* C15 (amended) -- a call that finds a cached token with more than 60 s left
\* returns it, makes no exchange and leaves the cache as it is; every other
\* call makes exactly one exchange call when the refresh key and the token
\* endpoint are configured, and otherwise none and returns no token.
C15_ReuseOrOneExchangeIfConfigured ==
    api.op = "ensure" =>
        IF ValidBefore
        THEN /\ api.returned = api.before.API_Access_Token
             /\ api.exchanges = 0
             /\ config = api.before
        ELSE IF ConfiguredBefore
             THEN api.exchanges = 1
             ELSE api.exchanges = 0 /\ api.returned = NoToken

C15_Witness ==
    /\ api.op = "ensure"
    /\ api.before.API_Access_Token # NoToken
    /\ api.before.API_Access_Expires_At - api.at = SafetyMargin
    /\ api.exchanges = 1
    /\ api.returned \notin {NoToken, api.before.API_Access_Token}

\* a response with status 200 one of whose errors carries the code
\* AUTH_NOT_AUTHENTICATED or a message mentioning "auth"
AuthClassified(r) ==
    /\ r.status = "200"
    /\ r.body.kind = "json"
    /\ \E i \in 1..Len(r.body.errors) :
          r.body.errors[i].code = "AUTH_NOT_AUTHENTICATED" \/ r.body.errors[i].mentions_auth

\* the request returned what the retry's response parses to
ReturnsRetry ==
    /\ api.status = api.second.status
    /\ api.payload = IF api.second.body.kind = "json" THEN api.second.body ELSE NoBody

\* C16 (as stated) -- a request whose first response is an auth-classified
\* 200 clears the cached token, makes one re-exchange, sends exactly one retry
\* and returns the retry's response; no request sends more than two API calls
\* or makes more than two exchanges.
C16_AuthRetryOnce ==
    api.op = "request" =>
        /\ api.calls <= 2 /\ api.exchanges <= 2
        /\ (api.calls >= 1 /\ AuthClassified(api.first)) =>
              /\ api.cleared
              /\ api.reexchanges = 1
              /\ api.calls = 2
              /\ ReturnsRetry

\* C16 (amended) -- no request sends more than two API calls or makes more
\* than two exchanges.  After an auth-classified 200 the request tries to
\* clear the cached token and asks for a token again; when the cache was
\* cleared this is exactly one re-exchange (none if the refresh key or the
\* endpoint is not configured).  If a token comes back the call is retried
\* exactly once and the retry's response is returned, auth-classified or not;
\* if none comes back no retry is sent and the first response is returned.
C16_AuthRetryBounded ==
    api.op = "request" =>
        /\ api.calls <= 2 /\ api.exchanges <= 2
        /\ (api.calls >= 1 /\ AuthClassified(api.first)) =>
              /\ api.cleared => api.reexchanges = (IF ConfiguredBefore THEN 1 ELSE 0)
              /\ IF api.returned # NoToken
                 THEN api.calls = 2 /\ ReturnsRetry
                 ELSE /\ api.calls = 1
                      /\ api.status = api.first.status
                      /\ api.payload = api.first.body

C16_Witness ==
    /\ api.op = "request"
    /\ AuthClassified(api.first)
    /\ api.calls = 2
    /\ AuthClassified(api.second)
    /\ api.reexchanges = 1

\* C11 -- a teardown of a match whose previous handling was a teardown that
\* returned does not raise, attempts no channel deletion, and leaves the
\* persisted record and the in-memory set without the match.
C11_TeardownIdempotent ==
    (hist.again >= 0 /\ report.op = "teardown") =>
        /\ report.outcome = "ok"
        /\ report.delete_attempts = << >>
        /\ ~active_voice[report.g][report.m].present
        /\ ~active_matches[report.g][report.m].present

C11_Witness ==
    /\ hist.again >= 1
    /\ report.action = "match" /\ report.op = "teardown" /\ report.new = "CANCELLED"

\* C12 (as stated) -- a step of the recovery pass for a listed match M deletes
\* exactly the channels the record listed for M, no other channel, and removes
\* M from the record.
C12_RecoveryDeletesListed ==
    report.action = "cleanup" =>
        /\ DOMAIN channels = hist.before \ hist.listed
        /\ ~active_matches[report.g][report.m].present

\* C12 (amended) -- a step of the recovery pass for a listed match M, whatever
\* the remote state of M and the state cache: if the write of the record
\* without M fails, the step raises, ends the pass and deletes nothing;
\* otherwise it attempts to delete exactly the still existing channels listed
\* for M in the record or held for M in memory, the channels that disappear are those attempts that did not fail, no
\* other channel is touched, and M is in neither the record nor the in-memory set.
C12_RecoveryAttemptsListed ==
    report.action = "cleanup" =>
        IF report.outcome = "raised"
        THEN /\ DOMAIN channels = hist.before
             /\ stopper.at = "failed"
        ELSE /\ Range(report.delete_attempts) = (hist.listed \cup hist.held) \cap hist.before
             /\ DOMAIN channels = hist.before \ (Range(report.delete_attempts) \ report.delete_failed)
             /\ ~active_matches[report.g][report.m].present
             /\ ~active_voice[report.g][report.m].present

C12_Witness ==
    /\ report.action = "cleanup"
    /\ report.outcome = "ok"
    /\ report.delete_attempts # << >>
    /\ report.delete_failed = {}
    /\ remote_m[report.m] = "RUNNING"
    /\ hist.restarts > 0
    /\ \E c \in DOMAIN channels : c \in hist.made

\* C13 -- when start() has run, and before any sweep, the persisted record
\* of no guild lists a match any more.
C13_RecoveryOnStartup ==
    report.action = "start" => \A g \in Guilds : Listed(g) = {}

\* C14 -- after a restart and a completed recovery pass, no deletion having
\* failed, no channel the monitor has created exists and the persisted
\* records are empty.
C14_NoChannelOutlivesRestart ==
    (hist.restarts > 0 /\ stopper.at = "done" /\ hist.recovered /\ ~hist.delete_failed) =>
        /\ hist.made \cap DOMAIN channels = {}
        /\ \A g \in Guilds : Listed(g) = {}

\* C19 -- after stop() is called no sweep starts, no transition handling in
\* progress is cancelled, and the cleanup runs only once the poll task is gone.
C19_StopLetsSweepFinish ==
    /\ report.action = "tick" => stopper.at = "idle"
    /\ ~hist.cancelled
    /\ stopper.at = "cleanup" => task = "none"

\* C20 -- the sweep never waits for the delivery of a join reminder.
C20_SweepNeverAwaitsReminder == job.at # "remind"

\* the steps of the poll task, and the end of the process
PollSteps == {"match", "fetch", "stop_timeout"}

ProcessEnds == {"crash", "start"}

\* C21 (as stated) -- the state cache and the in-memory active set change
\* only in steps of the poll task.
C21_PollTaskOnlyWriter ==
    [][(state_cache' # state_cache \/ active_voice' # active_voice)
         => report'.action \in PollSteps \cup ProcessEnds]_vars

\* C21 (amended) -- the state cache changes only in steps of the poll task;
\* the in-memory active set changes in steps of the poll task and in the
\* cleanup stop() runs, and that cleanup changes it only when the poll task
\* has ended or been cancelled, never while a handler is in progress.
C21_WritersNeverInterleave ==
    [][/\ state_cache' # state_cache => report'.action \in PollSteps \cup ProcessEnds
       /\ active_voice' # active_voice =>
            \/ report'.action \in PollSteps \cup ProcessEnds
            \/ report'.action = "cleanup" /\ task = "none" /\ job = NoJob]_vars

C21_Witness ==
    /\ report.action = "cleanup"
    /\ hist.held # {}
    /\ ~active_voice[report.g][report.m].present
    /\ task = "none"

\* the process died while a save was under way, and no two saves overlapped
CrashedAlone ==
    /\ \A s \in Savers : savers[s].pc = "dead"
    /\ ~sop.overlap

\* the mappings a crash may leave: the one before any save, and each one a
\* save() handed to _write
WholeMappings == {Load(sop.first)} \cup sop.intended

C23_ConcurrentSavesKeepBoth ==
    (/\ \A s \in Savers : savers[s].pc = "done" /\ savers[s].saved
     /\ sop.first.kind \in Unloadable \cup {"object"})
        => \A s \in Savers : StorageRead(disk).links[SaveKey(s)] = SaveValue(s)

\* C24: when the backing file is missing, unreadable or damaged -- JSON that
\* is not the expected root object included -- lookup() reports the id as
\* absent and allLinks() returns an empty mapping, and neither raises.
C24_DamagedStoreDegrades ==
    (sop.op \in {"lookup", "all_links"} /\ sop.seen # "object")
        => /\ ~sop.raised
           /\ sop.op = "lookup" => sop.value = NoLink
           /\ sop.op = "all_links" => sop.shape = "mapping" /\ sop.mapping = EmptyLinks

\* C25: a token call that finds no valid cached token makes no exchange and
\* returns no token when the refresh credential or the endpoint is not
\* configured; when the exchange is rejected (non-200) or fails in transport
\* it returns no token either, never the stale cached one.
C25_NoTokenWhenExchangeImpossible ==
    (api.op = "ensure" /\ ~ValidBefore) =>
        /\ ~ConfiguredBefore => api.exchanges = 0 /\ api.returned = NoToken
        /\ api.answer \in {"rejected", "exception"} =>
               api.exchanges = 1 /\ api.returned = NoToken /\ config = api.before

\* the endpoint refused the exchange while a stale token was cached
C25_Witness ==
    /\ api.op = "ensure"
    /\ ~ValidBefore
    /\ api.answer = "rejected"
    /\ api.before.API_Access_Token # NoToken
    /\ api.returned = NoToken

\* C28: a request retries only the auth case.  When the first response is a
\* transport failure or timeout, a non-200 status, a body that is not JSON, or
\* a 200 without an auth error, exactly one API call is sent, the cached token
\* is neither cleared nor renewed, and the settings stay as the request's
\* token call left them; a transport failure and a timeout both return
\* (nil, nil).
C28_OnlyAuthCaseRetried ==
    (api.op = "request" /\ api.calls >= 1 /\ ~AuthClassified(api.first)) =>
        /\ api.calls = 1
        /\ api.reexchanges = 0
        /\ ~api.cleared
        /\ config = api.ensured
        /\ api.status = api.first.status
        /\ api.first = NoResponse => api.payload = NoBody /\ api.status = None

\* a 500 whose body carries the auth error code was returned after one call,
\* the cached token untouched
C28_Witness ==
    /\ api.op = "request"
    /\ api.calls = 1
    /\ api.first.status = "500"
    /\ IsAuthErrorCode(api.first.body)
    /\ config.API_Access_Token # NoToken
    /\ config = api.ensured

\* C29: when the auth retry cannot be completed the request returns an
\* ordinary result: if the renewal yields no token, no second API call is
\* sent and the first response is returned; if the retried call fails or is
\* rejected again, what the retry's response parses to is returned and no
\* third call is sent.
C29_FailedRetryIsOrdinaryResult ==
    (api.op = "request" /\ AuthClassified(api.first)) =>
        /\ api.calls \in {1, 2}
        /\ api.returned = NoToken =>
               /\ api.calls = 1
               /\ api.second = NoResponse
               /\ api.payload = api.first.body /\ api.status = api.first.status
        /\ api.returned # NoToken => api.calls = 2 /\ ReturnsRetry

\* the renewal was refused after an auth error: one call, the first response
\* returned
C29_Witness ==
    /\ api.op = "request"
    /\ AuthClassified(api.first)
    /\ api.reexchanges = 1
    /\ api.answer = "rejected"
    /\ api.returned = NoToken
    /\ api.calls = 1
    /\ api.payload = api.first.body

\* C26 (as stated): the delay between two sweeps is at least 2 seconds
\* whatever the Poll_Interval setting holds -- zero, a negative number, a
\* value that is no integer, nothing -- and equals the setting when that is
\* an integer of at least 2.
C26_DelayFromSetting ==
    delay.state = "slept" =>
        /\ delay.secs >= SleepFloor
        /\ (delay.configured.kind = "int" /\ delay.configured.v >= SleepFloor)
               => delay.secs = delay.configured.v

\* C26 (amended): the delay is at least 2 seconds whatever the setting holds,
\* and equals the setting when that is an integer of at least 2 and the
\* iteration could read it; when the read raises, the value read by an
\* earlier iteration is used.
C26_DelayFromSettingRead ==
    delay.state = "slept" =>
        /\ delay.secs >= SleepFloor
        /\ (delay.read_ok /\ delay.configured.kind = "int"
              /\ delay.configured.v >= SleepFloor)
               => delay.secs = delay.configured.v
        /\ (delay.read_ok /\ delay.configured.kind \notin {"int", "bool"})
               => delay.secs = SleepFallback

\* a sweep ran with the setting at zero and the loop slept two seconds
C26_Witness ==
    /\ delay.state = "slept"
    /\ delay.read_ok
    /\ delay.configured = IntValue(0)
    /\ delay.secs = SleepFloor
    /\ interval = IntValue(0)

\* C27: the cache of the last payload logged per operation has no effect on
\* what a request returns or sends: the payload and status returned, the
\* number of API calls and the number of token exchanges are those of the
\* same call made with nothing logged before.
C27_LogCacheHasNoEffect ==
    api.op = "request" =>
        /\ api.payload = api.fresh.payload
        /\ api.status = api.fresh.status
        /\ api.calls = api.fresh.calls
        /\ api.exchanges = api.fresh.exchanges

\* a response equal to the one logged before was noted as a duplicate, and
\* the request still went through the renewal and the retry
C27_Witness ==
    /\ api.op = "request"
    /\ api.pushed = "duplicate"
    /\ api.first.body = last_js
    /\ api.calls = 2
    /\ api.reexchanges = 1
    /\ api.payload = api.second.body

\* the transition handler ran for a match that entered a terminal state, and
\* got as far as the terminal branch
TerminalHandled ==
    /\ report.action = "match"
    /\ report.handler
    /\ report.new \in TerminalStates
    /\ ~report.aborted

\* the places of an event in what the handler emitted
Places(name) == {i \in 1..Len(report.events) : report.events[i][1] = name}

\* C30: when a match enters COMPLETED, CANCELLED or NULLIFIED, the results
\* announcement is emitted before any channel of the match is deleted, and
\* the teardown is performed in each of the three states, also when no update
\* channel is configured and when sending the announcement fails: the match
\* leaves both records and every channel on record is deleted unless its own
\* deletion failed.
C30_AnnounceThenTeardown ==
    TerminalHandled =>
        /\ report.op = "teardown"
        /\ report.announced = "sent" <=> Places("match_concluded") # {}
        /\ \A i \in Places("match_concluded"), j \in Places("channels_torn_down") : i < j
        /\ ~active_voice[report.g][report.m].present
        /\ ~active_matches[report.g][report.m].present
        /\ \A i \in 1..Len(report.delete_attempts) :
               report.delete_attempts[i] \in DOMAIN channels
                   => report.delete_attempts[i] \in report.delete_failed

\* a cancelled match whose announcement could not be sent had its channel
\* deleted all the same
C30_Witness ==
    /\ TerminalHandled
    /\ report.new = "CANCELLED"
    /\ report.announced = "failed"
    /\ report.delete_attempts # << >>
    /\ report.delete_failed = {}
    /\ \A i \in 1..Len(report.delete_attempts) : report.delete_attempts[i] \notin DOMAIN channels

\* a step of the handler that created every channel of a RUNNING match and
\* persisted them
CreatedStep ==
    /\ pc = "match"
    /\ report'.action = "match" /\ report'.handler
    /\ report'.new = "RUNNING"
    /\ report'.op = "create" /\ report'.outcome = "ok"

\* the resolved participants of the match being handled who are in the
\* waiting channel of guild g before the step
InWaitingChannel(g) ==
    IF lobby_vc[g]
    THEN {d \in AllMembers(ResolveTeams(g, tdata.matches[mi])) : voice[d] = Lobby(g)}
    ELSE {}

\* C31: after the channels of a RUNNING match are created, a move is tried
\* for exactly the resolved participants who are in the waiting channel;
\* each one moved ends in a created channel that allows them (the single
\* channel, or the one named after their lineup); everybody else stays
\* where they were, and a failed move leaves the created channels in place
\* and on record.
C31_MovedFromLobbyOnly ==
    [][ CreatedStep =>
          LET g == report'.g
              teams == ResolveTeams(g, tdata.matches[mi])
          IN /\ report'.moved \cup report'.move_failed = InWaitingChannel(g)
             /\ report'.moved \cap report'.move_failed = {}
             /\ \A d \in report'.moved :
                    /\ voice'[d] \in report'.created
                    /\ voice'[d] \in DOMAIN channels'
                    /\ d \in channels'[voice'[d]].allow
                    /\ \/ Cardinality(report'.created) = 1
                       \/ \E i \in 1..Len(teams) :
                             /\ d \in Range(teams[i].members)
                             /\ channels'[voice'[d]].name[2] = teams[i].number + 1
             /\ \A d \in DiscordIds \ report'.moved : voice'[d] = voice[d]
             /\ report'.created \subseteq DOMAIN channels'
             /\ Range(active_voice'[g][report'.m].channels) = report'.created
             /\ Range(active_matches'[g][report'.m].channels) = report'.created ]_vars

\* two channels were created, one participant was moved into the channel of
\* their lineup, the move of another failed and a third was not in the
\* waiting channel
C31_Witness ==
    /\ report.action = "match" /\ report.handler /\ report.new = "RUNNING"
    /\ report.op = "create" /\ report.outcome = "ok"
    /\ Cardinality(report.created) = 2
    /\ report.moved # {}
    /\ report.move_failed # {}
    /\ \E d \in DiscordIds \ (report.moved \cup report.move_failed) :
           /\ d \in UNION {channels[c].allow : c \in report.created}
           /\ voice[d] \notin report.created
    /\ report.created \subseteq DOMAIN channels

\* a step of the handler for a match found WAITING in a guild with a waiting
\* channel
RemindStep ==
    /\ pc = "match"
    /\ report'.action = "match" /\ report'.handler /\ ~report'.aborted
    /\ report'.new = "WAITING"
    /\ lobby_vc[report'.g]

\* the remote users in the lineups of match series m
UsersOf(m) == UNION {Range(LineupsOf(m)[i].members) : i \in 1..Len(LineupsOf(m))}

\* the accounts of the users of m who are linked and members of guild g
LinkedMembers(g, m) ==
    {d \in DiscordIds : \E u \in UsersOf(m) : links[u] = d /\ d \in guild_members[g]}

\* C32: when a match enters WAITING and a waiting channel is configured, a
\* reminder is sent to exactly the resolved participants who are not in the
\* waiting channel (one send that fails stops no other); those in it and the
\* unresolved get none, and the transition creates, deletes and records no
\* channel and moves nobody.
C32_RemindersToAbsentOnly ==
    [][ RemindStep =>
          LET g == report'.g
              m == report'.m
          IN /\ report'.op = "remind"
             /\ report'.reminded \cup report'.remind_failed
                  = {d \in LinkedMembers(g, m) : voice[d] # Lobby(g)}
             /\ report'.reminded \cap report'.remind_failed = {}
             /\ Cardinality(report'.remind_failed) <= 1
             /\ channels' = channels
             /\ nextChannelId' = nextChannelId
             /\ active_voice' = active_voice
             /\ active_matches' = active_matches
             /\ voice' = voice
             /\ report'.created = {} /\ report'.delete_attempts = << >> ]_vars

\* of the three participants of a match found WAITING one was reminded, one
\* is in the waiting channel and one is not resolved
C32_Witness ==
    /\ report.action = "match" /\ report.handler /\ ~report.aborted
    /\ report.new = "WAITING" /\ report.op = "remind"
    /\ lobby_vc[report.g]
    /\ report.reminded # {}
    /\ \E d \in LinkedMembers(report.g, report.m) : voice[d] = Lobby(report.g)
    /\ \E u \in UsersOf(report.m) :
           links[u] = None \/ links[u] \notin guild_members[report.g]

\* C33: a match state other than WAITING, RUNNING, COMPLETED, CANCELLED,
\* NULLIFIED, and a tournament state other than RUNNING, COMPLETED, is no
\* error: the poll that observes it sends nothing, creates and tears down
\* nothing, and records the observed state in the state cache (a handler
\* whose configuration reads or link lookups raise is not the state's doing
\* and is left aside).
C33_UnrecognizedStateRecorded ==
    /\ ( /\ report.action = "match" /\ report.handler /\ ~report.aborted
         /\ report.new \notin {"WAITING", "RUNNING"} \cup TerminalStates )
       => /\ report.op = "none" /\ report.events = << >>
          /\ report.created = {} /\ report.delete_attempts = << >>
          /\ report.reminded = {} /\ report.moved = {}
          /\ report.finished
               => state_cache[report.g][report.t][report.m] = report.new
    /\ ( /\ report.action = "fetch" /\ report.outcome = "ok"
         /\ report.observed \notin {"RUNNING", "COMPLETED"} )
       => /\ report.events = << >>
          /\ t_state_cache[report.g][report.t] = report.observed

\* the handler is invoked, and returns, for a match found RUNNING that has an
\* entry in the in-memory active set
RunningAgainStep ==
    /\ pc = "match"
    /\ report'.action = "match" /\ report'.handler /\ ~report'.aborted
    /\ report'.new = "RUNNING"
    /\ active_voice[report'.g][report'.m].present

\* C34: a RUNNING transition of a match that has an entry in the in-memory
\* active set creates no channel, moves nobody and leaves the in-memory and
\* the persisted record as they were.
C34_RunningAgainCreatesNothing ==
    [][ RunningAgainStep =>
          /\ report'.created = {}
          /\ channels' = channels
          /\ nextChannelId' = nextChannelId
          /\ active_voice' = active_voice
          /\ active_matches' = active_matches
          /\ voice' = voice ]_vars

\* a match with channels on record went through its RUNNING transition once
\* more, after another state had been recorded for it
C34_Witness ==
    /\ report.action = "match" /\ report.handler /\ ~report.aborted
    /\ report.new = "RUNNING" /\ report.old \in MatchStates \ {"RUNNING"}
    /\ report.outcome = "skipped"
    /\ active_voice[report.g][report.m].channels # << >>
    /\ Range(active_voice[report.g][report.m].channels) \subseteq DOMAIN channels
    /\ active_matches[report.g][report.m] = active_voice[report.g][report.m]

\* C35: a RUNNING transition drops no channel that still exists from the
\* persisted record: every channel the persisted active_matches record of
\* the match listed before the handler ran and that exists after it is still
\* listed after it.
C35_RunningKeepsPersistedChannels ==
    [][ ( /\ pc = "match"
          /\ report'.action = "match" /\ report'.handler
          /\ report'.new = "RUNNING" )
        => \A c \in Range(active_matches[report'.g][report'.m].channels) :
               c \in DOMAIN channels'
                   => c \in Range(active_matches'[report'.g][report'.m].channels) ]_vars

\* C36: within one process lifetime the terminal-state handling of a match
\* (announcement and teardown) is performed at most once for each entry of
\* the match into a terminal state: no sweep performs it again while the
\* service keeps reporting that state, whether or not the match was missing
\* from a snapshot in between or the handler of another match raised.
C36_TerminalHandledOnce ==
    ( /\ report.action = "match" /\ report.handler
      /\ report.new \in TerminalStates
      /\ report.op = "teardown" )
    => ~report.repeated

\* C37: while the running flag is set the poll loop does not end: whatever
\* the read of the configuration or the sweep raises, in the first iteration
\* or a later one, the task is alive, sleeps and starts another sweep.
C37_LoopSurvives == running => task = "alive"

\* C38: a poll of a tournament whose fetch fails or yields no tournament
\* leaves the cached tournament state and match states as they were, invokes
\* no transition handler and sends, creates and deletes nothing; the sweep
\* goes on, so the next successful poll diffs against the states last
\* observed.
C38_FailedFetchKeepsCache ==
    [][ ( /\ pc = "fetch"
          /\ report'.action = "fetch" /\ report'.outcome = "no_data" )
        => /\ state_cache' = state_cache
           /\ t_state_cache' = t_state_cache
           /\ pc' # "match"
           /\ ~report'.handler /\ report'.events = << >>
           /\ events' = events
           /\ channels' = channels /\ voice' = voice
           /\ active_voice' = active_voice /\ active_matches' = active_matches ]_vars

\* the fetch of a tournament failed while the cache held a state of one of
\* its matches and the service reported another
C38_Witness ==
    /\ report.action = "fetch" /\ report.outcome = "no_data"
    /\ \E m \in Range(MatchesOf(report.t)) :
           /\ state_cache[report.g][report.t][m] # Absent
           /\ remote_m[m] \notin {Absent, state_cache[report.g][report.t][m]}

\* C39: at most one poll task exists at any time, and a start() that finds
\* _task set creates neither a task nor an HTTP session, whatever the order
\* of the scheduled start(), the command handlers' start() calls and stop().
C39_OnePollTask ==
    /\ Cardinality(mon.loops) <= 1
    /\ mon.loops \subseteq {mon.task, mon.awaited}
    /\ (mon.last.called /\ mon.last.had_task)
          => mon.last.new_task = 0 /\ mon.last.new_session = 0

\* start() was called while the task of an earlier start() existed
C39_Witness ==
    /\ mon.last.called /\ mon.last.had_task
    /\ mon.loops = {mon.task}
    /\ mon.open = {mon.session}
    /\ mon.tasks_made = 1

\* a completed save_link call of caller s that raised nothing
SaveSucceeded(s) == savers[s].pc = "done" /\ savers[s].saved

\* the link of u as the backing file holds it
StoredLink(d, u) == StorageRead(d).links[u]

\* C40: after save(r, l) succeeds, lookup(r) returns l, and a save(r, l) that
\* found the store readable leaves the link of every other remote id as it
\* was.
C40_RoundTripAndFrame ==
    [][ /\ \A s \in Savers :
             (sop'.op = "lookup" /\ sop'.key = SaveKey(s) /\ SaveSucceeded(s))
                 => ~sop'.raised /\ sop'.value = SaveValue(s)
        /\ \A s \in Savers :
             (/\ sop'.op = "replace" /\ sop'.who = s /\ savers'[s].saved
              /\ ContentOf(disk, disk.file).kind = "object")
                 => \A r2 \in LinkKeys \ {SaveKey(s)} :
                        StoredLink(disk', r2) = StoredLink(disk, r2) ]_vars

====
